---- MODULE Spec2Model ----
(***************************************************************************)
(* A model of the ironic Starlet emulator: the system bus with its         *)
(* deferred task queue, the Hollywood interrupt controller and timer, the  *)
(* interpreter's run loop and CPU step, and the load/store and branch      *)
(* instruction handlers.                                                   *)
(*                                                                         *)
(* Representation of machine words.  A 32-bit device register that the     *)
(* code only treats bitwise (IRQ status/enable, SPARE1, ...) is the set of *)
(* its set bit positions, a subset of 0..31: `a & b` is \cap, `a | b` is   *)
(* \cup, `a ^ b` is the symmetric difference and `!a` is the complement in *)
(* 0..31.  Counters and addresses are natural numbers.                     *)
(***************************************************************************)
EXTENDS Integers, Sequences, FiniteSets, TLC

(***************************************************************************)
(* State.                                                                  *)
(*   bus   the shared Bus behind its RwLock                                *)
(*   cpu   the interpreter's Cpu                                           *)
(*   emu   the interpreter thread: cycle counters, position in the run     *)
(*         loop, the instruction in flight, and how the thread ended       *)
(*   ppc   the PPC bridge thread: position and the requests served so far  *)
(*   last  history: the latest operation, its inputs and the parts of the  *)
(*         state it started from                                           *)
(***************************************************************************)
VARIABLES bus, cpu, emu, ppc, last

(***************************************************************************)
(* Bounds of the model.                                                    *)
(***************************************************************************)
\* Run-loop iterations explored by the bus specification.
MaxCycle == 3
\* Bus accesses one instruction may perform (a store-multiple does several).
MaxAccess == 2
\* Run-loop iterations explored by the task-queue specification.
MaxTaskCycle == 4
\* Run-loop iterations explored by the timer specification.
MaxTimerCycle == 260
\* Client requests the PPC bridge serves.
MaxPpcReq == 2
\* Run-loop iterations explored by the CPU specification.
MaxCpuCycle == 2
\* CPU steps of the load/store-multiple specification
MaxMultiCycle == 1
\* CPU steps of the branch specification
MaxBranchCycle == 3
\* CPU steps of the SD host controller specification
MaxSdhcCycle == 3
\* CPU steps of the SD card specification
MaxCardCycle == 2
\* Run-loop iterations explored by the GPIO specification.
MaxGpioCycle == 64
\* Run-loop iterations explored by the SHA specification.
MaxShaCycle == 3
MaxRomCycle == 3
MaxLoadCycle == 2
MaxNestCycle == 11
MaxDigestCycle == 5
MemLen == 4
MaxMemCalls == 3

(***************************************************************************)
(* 32-bit words as bit sets.                                               *)
(***************************************************************************)
AllBits == 0..31
\* F applied to v, with v evaluated once: the `let x = v` of the source.
Bind(v, F(_)) == F(v)
U32Not(a) == AllBits \ a
U32Xor(a, b) == (a \ b) \cup (b \ a)
\* The bit set of a number below 2^31.
BitsOf(n) == {i \in 0..30 : (n \div (2^i)) % 2 = 1}

(***************************************************************************)
(* enum HollywoodIrq (the masks, as bit sets).                             *)
(***************************************************************************)
IrqTimer == {0}
IrqSha == {3}
IrqSdhc == {7}
IrqPpcIpc == {30}
IrqArmIpc == {31}

(***************************************************************************)
(* struct IrqInterface.                                                    *)
(***************************************************************************)
IrqInterfaceDefault ==
    [arm_irq_output |-> FALSE, ppc_irq_output |-> FALSE,
     ppc_irq_status |-> {}, ppc_irq_enable |-> {},
     arm_irq_status |-> {}, arm_irq_enable |-> {},
     arm_fiq_enable |-> {}]

\* IrqInterface::update_irq_lines with the enable mask dropped from the ARM line.
update_irq_lines_NoMask(q) ==
    [q EXCEPT !.arm_irq_output = (q.arm_irq_status # {}),
              !.ppc_irq_output = ((q.ppc_irq_status \cap q.ppc_irq_enable) # {})]

\* IrqInterface::update_irq_lines
update_irq_lines(q) ==
    [q EXCEPT !.arm_irq_output = ((q.arm_irq_status \cap q.arm_irq_enable) # {}),
              !.ppc_irq_output = ((q.ppc_irq_status \cap q.ppc_irq_enable) # {})]

\* IrqInterface::assert that sets the status bits whatever the enables are.
irq_assert_Unconditional(q, irq) ==
    update_irq_lines([q EXCEPT !.arm_irq_status = @ \cup irq,
                               !.ppc_irq_status = @ \cup irq])

\* IrqInterface::assert
irq_assert(q, irq) ==
    update_irq_lines(
        [q EXCEPT !.arm_irq_status = IF (q.arm_irq_enable \cap irq) # {} THEN @ \cup irq ELSE @,
                  !.ppc_irq_status = IF (q.ppc_irq_enable \cap irq) # {} THEN @ \cup irq ELSE @])

\* IrqInterface::write_handler whose status write stores the value instead of
\* clearing the written bits.
irq_write_handler_Store(q, off, val) ==
    IF off = 4 THEN [ok |-> TRUE, irq |-> update_irq_lines([q EXCEPT !.ppc_irq_enable = val])]
    ELSE IF off = 8 THEN [ok |-> TRUE, irq |-> update_irq_lines([q EXCEPT !.arm_irq_status = val])]
    ELSE IF off = 12 THEN [ok |-> TRUE, irq |-> update_irq_lines([q EXCEPT !.arm_irq_enable = val])]
    ELSE IF off = 16 THEN [ok |-> TRUE, irq |-> update_irq_lines([q EXCEPT !.arm_fiq_enable = val])]
    ELSE IF off = 44 THEN [ok |-> TRUE, irq |-> update_irq_lines(q)]
    ELSE [ok |-> FALSE, irq |-> q]

\* IrqInterface::write_handler: [ok, irq]; ok = FALSE is the bail! of an
\* unhandled offset, which leaves the interface untouched.
irq_write_handler(q, off, val) ==
    IF off = 4 THEN [ok |-> TRUE, irq |-> update_irq_lines([q EXCEPT !.ppc_irq_enable = val])]
    ELSE IF off = 8 THEN [ok |-> TRUE, irq |-> update_irq_lines([q EXCEPT !.arm_irq_status = @ \cap U32Not(val)])]
    ELSE IF off = 12 THEN [ok |-> TRUE, irq |-> update_irq_lines([q EXCEPT !.arm_irq_enable = val])]
    ELSE IF off = 16 THEN [ok |-> TRUE, irq |-> update_irq_lines([q EXCEPT !.arm_fiq_enable = val])]
    ELSE IF off = 44 THEN [ok |-> TRUE, irq |-> update_irq_lines(q)]
    ELSE [ok |-> FALSE, irq |-> q]

(***************************************************************************)
(* Shifts and masks on bit sets, and the number a small bit set denotes.   *)
(***************************************************************************)
Shr(v, n) == {b - n : b \in {x \in v : x >= n}}
Shl(v, n) == {b + n : b \in {x \in v : x + n <= 31}}
MaskBits(lo, n) == lo..(lo + n - 1)
\* (v >> n) & 0xffff_ffff of a 128-bit value
Shr128(v, n) == {b - n : b \in {x \in v : x >= n /\ x < n + 32}}
RECURSIVE NumOf(_)
NumOf(v) == IF v = {} THEN 0
            ELSE LET b == CHOOSE x \in v : TRUE IN 2^b + NumOf(v \ {b})

(***************************************************************************)
(* SD host controller (dev/sdhc.rs) and card (dev/sdhc/card.rs).           *)
(* The register file is kept as its 32-bit words, indexed by byte offset.  *)
(***************************************************************************)
\* Bus cycles between a buffer-ready notification and the next I/O poll.
IOPollDelay == 10000

SdWords == {0, 4, 8, 12, 16, 20, 24, 28, 36, 44, 48, 52, 56, 64, 72, 252}

\* SDRegisters::base_offset
base_offset(reg) ==
    CASE reg = "SystemAddress" -> 0
      [] reg = "BlockSize" -> 4
      [] reg = "BlockCount" -> 6
      [] reg = "Argument" -> 8
      [] reg = "TxMode" -> 12
      [] reg = "Command" -> 14
      [] reg = "Response" -> 16
      [] reg = "PresentState" -> 36
      [] reg = "ClockControl" -> 44
      [] reg = "TimeoutControl" -> 46
      [] reg = "SoftwareReset" -> 47
      [] reg = "NormalIntStatus" -> 48
      [] reg = "ErrorIntStatus" -> 50
      [] reg = "NormalIntStatusEnable" -> 52
      [] reg = "ErrorIntStatusEnable" -> 54
      [] reg = "NormalIntSignalEnable" -> 56
      [] reg = "ErrorIntSignalEnable" -> 58
      [] reg = "SlotIntStatus" -> 252

\* SDRegisters::reg_from_offset, as the registers of the word at `off` in
\* ascending offset order.
regs_from_offset(off) ==
    CASE off = 0 -> <<"SystemAddress">>
      [] off = 4 -> <<"BlockSize", "BlockCount">>
      [] off = 8 -> <<"Argument">>
      [] off = 12 -> <<"TxMode", "Command">>
      [] off = 16 -> <<"Response">>
      [] off = 36 -> <<"PresentState">>
      [] off = 44 -> <<"ClockControl", "TimeoutControl", "SoftwareReset">>
      [] off = 48 -> <<"NormalIntStatus", "ErrorIntStatus">>
      [] off = 52 -> <<"NormalIntStatusEnable", "ErrorIntStatusEnable">>
      [] off = 56 -> <<"NormalIntSignalEnable", "ErrorIntSignalEnable">>
      [] off = 252 -> <<"SlotIntStatus">>

\* SDRegisters::bytecount_of_reg
bytecount_of_reg(reg) ==
    CASE reg \in {"SystemAddress", "Argument", "PresentState"} -> 4
      [] reg = "Response" -> 16
      [] reg \in {"TimeoutControl", "SoftwareReset"} -> 1
      [] OTHER -> 2

\* SDRegisters::must_always_handle_writes
must_always_handle_writes(reg) ==
    reg \in {"BufferDataPort", "Command", "NormalIntStatus", "ErrorIntStatus", "SystemAddress"}

\* SDRegisters::get_affected_registers that reports only registers whose
\* bytes change.
get_affected_registers_ChangedOnly(off, old, new) ==
    SelectSeq(regs_from_offset(off), LAMBDA r :
        (old \cap MaskBits((base_offset(r) % 4) * 8, bytecount_of_reg(r) * 8))
        # (new \cap MaskBits((base_offset(r) % 4) * 8, bytecount_of_reg(r) * 8)))

\* SDRegisters::get_affected_registers
get_affected_registers(off, old, new) ==
    LET rs == regs_from_offset(off)
        first == rs[1]
    IN IF bytecount_of_reg(first) >= 4
       THEN IF old # new \/ must_always_handle_writes(first) THEN <<first>> ELSE <<>>
       ELSE SelectSeq(rs, LAMBDA r :
                must_always_handle_writes(r)
                \/ (old \cap MaskBits((base_offset(r) % 4) * 8, bytecount_of_reg(r) * 8))
                   # (new \cap MaskBits((base_offset(r) % 4) * 8, bytecount_of_reg(r) * 8)))

\* Card::try_new / SDInterface::default, with or without a card image.
\* HwInit is the low word of the Capabilities register (3.3 V, 10 MHz base
\* clock, DMA support) and of the MaxCurrentCapabilities register.
\* `insert_ints` is a history field: the number of times the card-insertion
\* interrupt (bit 6) has been set in NormalIntStatus by raise_int or
\* do_pending_ints.
CardDefault ==
    [state |-> "Idle", acmd |-> FALSE, rca |-> 0, selected |-> FALSE,
     rw_index |-> 0, rw_stop |-> 0, tx_status |-> "None", last_cmd |-> -1]

HwInit == [w \in {64, 72} |-> IF w = 64 THEN {9, 11, 22, 24} ELSE MaskBits(0, 8)]

SDInterfaceDefault(card_available) ==
    [register_file |-> [w \in SdWords |-> IF w \in DOMAIN HwInit THEN HwInit[w] ELSE {}],
     pending_interrupt_flags |-> {},
     insert_raised |-> FALSE,
     first_ack |-> FALSE,
     device |-> CardDefault,
     device_available |-> card_available,
     device_tx_status |-> "None",
     insert_ints |-> 0]

\* SDInterface::raw_read / raw_write (word access, offset already aligned).
raw_read(sd, off) == sd.register_file[off]
raw_write(sd, off, val) == [sd EXCEPT !.register_file[off] = val]

\* SDInterface::setreg
setreg(sd, reg, val) ==
    IF bytecount_of_reg(reg) = 4 THEN raw_write(sd, base_offset(reg), val)
    ELSE LET val_shift == (base_offset(reg) % 4) * 8
             mask == MaskBits(val_shift, bytecount_of_reg(reg) * 8)
             word == base_offset(reg) - (base_offset(reg) % 4)
             old == raw_read(sd, word) \ mask
         IN raw_write(sd, word, old \cup (Shl(val, val_shift) \cap mask))

\* SDInterface::ck_int_enabled
ck_int_enabled(sd, int) ==
    LET signal == raw_read(sd, base_offset("NormalIntSignalEnable"))
        status == raw_read(sd, base_offset("NormalIntStatusEnable"))
    IN (signal \cap int) # {} /\ (status \cap int) # {}

\* SDInterface::raise_int: [sd, ret]
raise_int(sd, int) ==
    IF ck_int_enabled(sd, int)
    THEN LET nisr == raw_read(sd, base_offset("NormalIntStatus"))
             sisr == raw_read(sd, 252) \cap MaskBits(0, 16)
             s1 == setreg(sd, "NormalIntStatus", nisr \cup int)
         IN [sd |-> [setreg(s1, "SlotIntStatus", sisr \cup {0})
                     EXCEPT !.insert_ints = IF 6 \in int THEN @ + 1 ELSE @],
             ret |-> TRUE]
    ELSE [sd |-> [sd EXCEPT !.pending_interrupt_flags = @ \cup int], ret |-> FALSE]

\* SDInterface::do_pending_ints that forgets the flags it cannot deliver.
do_pending_ints_DropAll(sd) ==
    IF sd.pending_interrupt_flags = {} THEN [sd |-> sd, ret |-> FALSE]
    ELSE LET hit == {i \in sd.pending_interrupt_flags : ck_int_enabled(sd, {i})}
             nisr == raw_read(sd, base_offset("NormalIntStatus")) \cup hit
             s0 == [sd EXCEPT !.pending_interrupt_flags = {}]
             sisr == raw_read(s0, 252) \cap MaskBits(0, 16)
         IN IF hit # {}
            THEN [sd |-> [setreg(setreg(s0, "NormalIntStatus", nisr),
                                 "SlotIntStatus", sisr \cup {0})
                          EXCEPT !.insert_ints = IF 6 \in hit THEN @ + 1 ELSE @],
                  ret |-> TRUE]
            ELSE [sd |-> s0, ret |-> FALSE]

\* SDInterface::do_pending_ints: [sd, ret]
do_pending_ints(sd) ==
    IF sd.pending_interrupt_flags = {} THEN [sd |-> sd, ret |-> FALSE]
    ELSE LET hit == {i \in sd.pending_interrupt_flags : ck_int_enabled(sd, {i})}
             nisr == raw_read(sd, base_offset("NormalIntStatus")) \cup hit
             s0 == [sd EXCEPT !.pending_interrupt_flags = @ \ hit]
             sisr == raw_read(s0, 252) \cap MaskBits(0, 16)
         IN IF hit # {}
            THEN [sd |-> [setreg(setreg(s0, "NormalIntStatus", nisr),
                                 "SlotIntStatus", sisr \cup {0})
                          EXCEPT !.insert_ints = IF 6 \in hit THEN @ + 1 ELSE @],
                  ret |-> TRUE]
            ELSE [sd |-> s0, ret |-> FALSE]

\* SDInterface::reset that starts the insertion sequence over.
reset_ForgetInsert(sd) ==
    [raw_write(SDInterfaceDefault(sd.device_available), base_offset("PresentState"),
               raw_read(sd, base_offset("PresentState")) \cap {16, 17, 18})
     EXCEPT !.insert_ints = sd.insert_ints]

\* SDInterface::reset: a default interface that keeps the card-detection
\* bits of PresentState and the insert_raised flag.
reset(sd) ==
    [raw_write(SDInterfaceDefault(sd.device_available), base_offset("PresentState"),
               raw_read(sd, base_offset("PresentState")) \cap {16, 17, 18})
     EXCEPT !.insert_raised = sd.insert_raised, !.insert_ints = sd.insert_ints]

\* SDInterface::insert_card: [sd, ret]
insert_card(sd) ==
    IF sd.insert_raised \/ ~sd.device_available THEN [sd |-> sd, ret |-> FALSE]
    ELSE LET current_state == raw_read(sd, base_offset("PresentState"))
             s1 == setreg(sd, "PresentState", current_state \cup {16, 17, 18})
         IN raise_int([s1 EXCEPT !.insert_raised = TRUE], {6})

\* SDInterface::first_ack: [sd, ret]
first_ack(sd) ==
    IF sd.first_ack THEN [sd |-> sd, ret |-> FALSE]
    ELSE raise_int([sd EXCEPT !.first_ack = TRUE], {0})

\* SDInterface::cmd_complete: [sd, ret]
cmd_complete(sd) == raise_int(sd, {0})

\* CardState::bits_for_card_status
bits_for_card_status(state) ==
    CASE state = "Idle" -> 0 [] state = "Ready" -> 1 [] state = "Ident" -> 2
      [] state = "Stby" -> 3 [] state = "Trans" -> 4 [] state = "Data" -> 5
      [] state = "Rcv" -> 6 [] state = "Prg" -> 7 [] state = "Dis" -> 8

\* Command indexes whose card handlers are modelled.
ModelledCmds == {0, 2, 3, 7, 18, 25, 41, 55}

\* OcrReg::default, CidReg::default (bits of the 128-bit value), and the
\* relative card address cmd3 ends with.
OcrDefault == {20, 30, 31}
CidDefault == {0, 113} \cup (115..127)
RcaBase == 17185

\* A command result: the card, Some(Response) or None, and ok = FALSE for
\* the unimplemented!() of an unknown command.  resp holds the bits of a
\* Regular word (r2 = FALSE) or of a 128-bit R2 value.
IssueSome(card, resp, r2) == [card |-> card, resp |-> resp, r2 |-> r2, some |-> TRUE, ok |-> TRUE]
IssueNone(card) == [card |-> card, resp |-> {}, r2 |-> FALSE, some |-> FALSE, ok |-> TRUE]

\* Card::cmd3
cmd3(c) ==
    IssueSome([c EXCEPT !.state = "Stby", !.rca = RcaBase + 1],
              BitsOf((RcaBase + 1) * 65536 + bits_for_card_status("Stby")), FALSE)

\* Card::cmd7
cmd7(c, argument) ==
    IF c.rca # 0 /\ NumOf(Shr(argument, 16)) = c.rca
    THEN IssueNone([c EXCEPT !.state = IF c.state = "Dis" THEN "Prg" ELSE "Trans",
                             !.selected = TRUE])
    ELSE IssueNone([c EXCEPT !.state = IF c.state = "Prg" THEN "Dis" ELSE "Stby",
                             !.selected = FALSE])

\* The latch read that forgets to clear it.
take_acmd_Keep(card) == card

\* Card::issue, std::mem::replace(&mut self.acmd, false): the card with the
\* application-specific latch cleared (the old value is read by issue).
take_acmd(card) == [card EXCEPT !.acmd = FALSE]

\* Card::cmd0 that leaves the card state alone.
cmd0_KeepState(c) == IssueSome(c, {}, FALSE)

\* Card::cmd0
cmd0(c) == IssueSome([c EXCEPT !.state = "Idle"], {}, FALSE)

\* Card::issue for the modelled commands.  `last_cmd` is a history field:
\* the index of the latest command the card accepted.
issue(card, index, argument) ==
    LET c == [take_acmd(card) EXCEPT !.last_cmd = index]
    IN CASE ~card.acmd /\ index = 0 -> cmd0(c)
         [] card.acmd /\ index = 41 ->
              IssueSome([c EXCEPT !.state = "Ready"], OcrDefault, FALSE)
         [] ~card.acmd /\ index = 2 ->
              IssueSome([c EXCEPT !.state = "Ident"], CidDefault, TRUE)
         [] ~card.acmd /\ index = 3 -> cmd3(c)
         [] ~card.acmd /\ index = 7 -> cmd7(c, argument)
         [] ~card.acmd /\ index = 18 ->
              IssueSome([c EXCEPT !.state = "Data", !.rw_index = NumOf(argument) * 512,
                                  !.tx_status = "MultiReadPending"],
                        BitsOf(bits_for_card_status("Data") * 512), FALSE)
         [] ~card.acmd /\ index = 25 ->
              IssueSome([c EXCEPT !.state = "Rcv", !.rw_index = NumOf(argument) * 512,
                                  !.tx_status = "MultiWritePending"],
                        BitsOf(bits_for_card_status("Rcv") * 512), FALSE)
         [] index = 55 -> IssueSome([c EXCEPT !.acmd = TRUE], {}, FALSE)
         [] OTHER -> [IssueNone(c) EXCEPT !.ok = FALSE]

\* SDRegisters::apply_response
apply_response(sd, r) ==
    IF ~r.some THEN sd
    ELSE IF ~r.r2 THEN raw_write(sd, base_offset("Response"), r.resp)
    ELSE raw_write(raw_write(raw_write(raw_write(sd,
             base_offset("Response"), r.resp \cap MaskBits(0, 32)),
             base_offset("Response") + 4, Shr128(r.resp, 32)),
             base_offset("Response") + 8, Shr128(r.resp, 64)),
             base_offset("Response") + 12, Shr128(r.resp, 96))

\* SDInterface::buffer_ready_read: [sd, ret]
buffer_ready_read(sd) ==
    LET blocks_remaining == NumOf(Shr(raw_read(sd, 4), 16))
    IN IF blocks_remaining > 0
       THEN LET s1 == [sd EXCEPT !.device.rw_stop = sd.device.rw_index + 512]
                s2 == setreg(s1, "BlockCount", BitsOf(blocks_remaining - 1))
                ps == raw_read(s2, base_offset("PresentState"))
            IN raise_int(setreg(s2, "PresentState", ps \cup {11, 9, 1}), {5})
       ELSE [sd |-> sd, ret |-> FALSE]

\* SDInterface::buffer_ready_write: [sd, ret]
buffer_ready_write(sd) ==
    LET blocks_remaining == NumOf(Shr(raw_read(sd, 4), 16))
    IN IF blocks_remaining > 0
       THEN LET s1 == [sd EXCEPT !.device.rw_stop = sd.device.rw_index + 512]
                s2 == setreg(s1, "BlockCount", BitsOf(blocks_remaining - 1))
                ps == raw_read(s2, base_offset("PresentState"))
            IN raise_int(setreg(s2, "PresentState", ps \cup {10, 8, 1}), {4})
       ELSE [sd |-> sd, ret |-> FALSE]

\* SDInterface::tx_complete: [sd, ret]
tx_complete(sd) ==
    LET st == sd.device.tx_status
        kill == CASE st = "MultiWriteInProgress" -> {10, 8, 1}
                  [] st = "MultiReadInProgress" -> {11, 9, 1}
                  [] st = "DMAReadInProgress" -> {9, 1}
                  [] OTHER -> {8, 1}
        s1 == setreg(sd, "BlockCount", {})
        ps == raw_read(s1, base_offset("PresentState"))
        s2 == setreg(s1, "PresentState", ps \ kill)
    IN IF st \in {"MultiWriteInProgress", "MultiReadInProgress",
                  "DMAReadInProgress", "DMAWriteInProgress"}
       THEN raise_int([s2 EXCEPT !.device.tx_status = "None", !.device.state = "Trans"], {1})
       ELSE [sd |-> sd, ret |-> FALSE]

\* SDInterface::dma_int: [sd, ret]; the match is on the interface's own
\* device_tx_status field.
dma_int(sd) ==
    IF sd.device_tx_status \in {"DMAReadInProgress", "DMAWriteInProgress"}
    THEN raise_int(sd, {3})
    ELSE [sd |-> sd, ret |-> FALSE]

\* SDRegisters::run_write_handler: [sd, task, ok]; task is "" for None and
\* ok = FALSE is a panic inside the handler.
WhNone(s) == [sd |-> s, task |-> "", ok |-> TRUE]
WhSome(s, t) == [sd |-> s, task |-> t, ok |-> TRUE]

run_write_handler(reg, sd, old0, new0) ==
    LET shift == IF bytecount_of_reg(reg) >= 4 THEN 0 ELSE (base_offset(reg) % 4) * 8
        mask == IF bytecount_of_reg(reg) >= 4 THEN AllBits
                ELSE MaskBits(0, bytecount_of_reg(reg) * 8)
        old == Shr(old0, shift) \cap mask
        new == Shr(new0, shift) \cap mask
    IN CASE reg = "Command" ->
              Bind(issue(sd.device, NumOf(Shr(new \cap MaskBits(8, 6), 8)),
                         raw_read(sd, base_offset("Argument"))),
                   LAMBDA r :
                     IF ~r.ok THEN [sd |-> sd, task |-> "", ok |-> FALSE]
                     ELSE Bind(cmd_complete(apply_response([sd EXCEPT !.device = r.card], r)),
                               LAMBDA c : IF c.ret THEN WhSome(c.sd, "RaiseInt")
                                          ELSE WhNone(c.sd)))
         [] reg = "NormalIntStatus" ->
              Bind(setreg(sd, reg, (old \ MaskBits(0, 9))
                                   \cup U32Xor(old \cap MaskBits(0, 9), new \cap MaskBits(0, 9))),
                   LAMBDA s1 :
                     IF s1.device.tx_status = "MultiReadPending" /\ 0 \in new
                     THEN IF 0 \in raw_read(s1, base_offset("TxMode"))
                          THEN WhSome([s1 EXCEPT !.device.tx_status = "DMAReadInProgress"],
                                      "DoDMARead")
                          ELSE WhSome([s1 EXCEPT !.device.tx_status = "MultiReadInProgress"],
                                      "SendBufReadReady")
                     ELSE IF s1.device.tx_status = "MultiWritePending" /\ 0 \in new
                     THEN IF 0 \in raw_read(s1, base_offset("TxMode"))
                          THEN WhSome([s1 EXCEPT !.device.tx_status = "DMAWriteInProgress"],
                                      "DoDMAWrite")
                          ELSE WhSome([s1 EXCEPT !.device.tx_status = "MultiWriteInProgress"],
                                      "SendBufWriteReady")
                     ELSE WhNone(s1))
         [] reg = "ErrorIntStatus" ->
              WhNone(setreg(sd, reg,
                            (old \ (MaskBits(0, 9) \cup MaskBits(12, 4)))
                            \cup U32Xor(old \cap (MaskBits(0, 9) \cup MaskBits(12, 4)),
                                        new \cap (MaskBits(0, 9) \cup MaskBits(12, 4)))))
         [] reg \in {"NormalIntSignalEnable", "NormalIntStatusEnable"} ->
              Bind(do_pending_ints(setreg(sd, reg, new)),
                   LAMBDA p :
                     IF p.ret THEN WhSome(p.sd, "RaiseInt")
                     ELSE Bind(insert_card(p.sd),
                               LAMBDA i :
                                 IF i.ret THEN WhSome(i.sd, "RaiseInt")
                                 ELSE Bind(first_ack(i.sd),
                                           LAMBDA f : IF f.ret THEN WhSome(f.sd, "RaiseInt")
                                                      ELSE WhNone(f.sd))))
         [] reg = "ClockControl" ->
              WhNone(setreg(sd, reg, IF 0 \in new THEN new \cup {1} ELSE new \ {0, 1}))
         [] reg = "SoftwareReset" ->
              IF 0 \in new THEN WhNone(reset(sd))
              ELSE [sd |-> sd, task |-> "", ok |-> FALSE]
         [] reg = "SystemAddress" ->
              Bind(setreg(sd, reg, new),
                   LAMBDA s1 :
                     IF (old \cap MaskBits(24, 8)) # (new \cap MaskBits(24, 8))
                     THEN IF s1.device.tx_status = "DMAReadInProgress"
                          THEN WhSome(s1, "DoDMARead")
                          ELSE IF s1.device.tx_status = "DMAWriteInProgress"
                          THEN WhSome(s1, "DoDMAWrite")
                          ELSE WhNone(s1)
                     ELSE WhNone(s1))
         [] OTHER -> WhNone(setreg(sd, reg, new))

\* SDInterface::write: the handlers of the affected registers run in order,
\* each on the word read before the write; the last task produced is returned.
RECURSIVE run_handlers(_, _, _, _, _)
run_handlers(regs, sd, old, val, task) ==
    IF regs = <<>> THEN [sd |-> sd, task |-> task, ok |-> TRUE]
    ELSE Bind(run_write_handler(Head(regs), sd, old, val),
              LAMBDA r :
                IF ~r.ok THEN r
                ELSE run_handlers(Tail(regs), r.sd, old, val,
                                  IF r.task # "" THEN r.task ELSE task))

sd_write(sd, off, val) ==
    run_handlers(get_affected_registers(off, raw_read(sd, off), val), sd,
                 raw_read(sd, off), val, "")

(***************************************************************************)
(* Hollywood: timer, IPC mailbox flags, and the register block.            *)
(***************************************************************************)
\* TimerInterface::CPU_CLK_DIV
CPU_CLK_DIV == 128

TimerInterfaceDefault == [timer |-> 0, alarm |-> {}, cpu_cycle_prev |-> 0]

\* TimerInterface::step comparing the alarm before the increment.
timer_step_StaleCompare(t, current_cpu_cycle) ==
    IF current_cpu_cycle - t.cpu_cycle_prev >= CPU_CLK_DIV
    THEN [timer |-> [t EXCEPT !.timer = @ + 1, !.cpu_cycle_prev = current_cpu_cycle],
          ret |-> (BitsOf(t.timer) = t.alarm)]
    ELSE [timer |-> t, ret |-> FALSE]

\* TimerInterface::step: [timer, ret]
timer_step(t, current_cpu_cycle) ==
    IF current_cpu_cycle - t.cpu_cycle_prev >= CPU_CLK_DIV
    THEN [timer |-> [t EXCEPT !.timer = @ + 1, !.cpu_cycle_prev = current_cpu_cycle],
          ret |-> (BitsOf(t.timer + 1) = t.alarm)]
    ELSE [timer |-> t, ret |-> FALSE]

\* IpcInterface::new: the four control flags of the mailbox.
IpcInterfaceNew == [ppc_req |-> FALSE, ppc_ack |-> FALSE, arm_req |-> FALSE, arm_ack |-> FALSE]

\* IpcInterface::assert_ppc_irq / assert_arm_irq: a flag addressed to a side
\* raises that side's IPC interrupt.
assert_ppc_irq(ipc) == ipc.ppc_req \/ ipc.ppc_ack
assert_arm_irq(ipc) == ipc.arm_req \/ ipc.arm_ack

\* The ARM-side and PPC-side control-register writes of the mailbox: a side
\* sets the other side's req/ack flags and clears its own.
arm_ctrl_write(ipc, val) ==
    [ppc_req |-> (ipc.ppc_req \/ 0 \in val),
     ppc_ack |-> (ipc.ppc_ack \/ 3 \in val),
     arm_ack |-> (ipc.arm_ack /\ 1 \notin val),
     arm_req |-> (ipc.arm_req /\ 2 \notin val)]
ppc_ctrl_write(ipc, val) ==
    [arm_req |-> (ipc.arm_req \/ 0 \in val),
     arm_ack |-> (ipc.arm_ack \/ 3 \in val),
     ppc_ack |-> (ipc.ppc_ack /\ 1 \notin val),
     ppc_req |-> (ipc.ppc_req /\ 2 \notin val)]

\* IpcInterface::write_handler: [ok, ipc]
ipc_write_handler(ipc, off, val) ==
    CASE off = 4 -> [ok |-> TRUE, ipc |-> ppc_ctrl_write(ipc, val)]
      [] off = 12 -> [ok |-> TRUE, ipc |-> arm_ctrl_write(ipc, val)]
      [] off \in {0, 8} -> [ok |-> TRUE, ipc |-> ipc]
      [] OTHER -> [ok |-> FALSE, ipc |-> ipc]

(***************************************************************************)
(* The GPIO block and the SEEPROM behind it (dev/hlwd/gpio.rs,              *)
(* dev/hlwd/gpio/seeprom.rs).  An Option is a sequence of length 0 or 1.   *)
(* The input buffer and the 16-bit words are sets of bit positions.        *)
(* `lag` is a history field: the number of rising clock edges written to   *)
(* the ARM output register with CS asserted minus the number of            *)
(* SeepromState::step calls, counted between -1 and 1.                     *)
(***************************************************************************)
\* GpioPin
SeepromCs == {10}
SeepromClk == {11}
SeepromMosi == {12}
SeepromMiso == {13}

\* The SEEPROM is 0x100 bytes, 128 words of 16 bits.
SeepromWords == 128

\* The content of seeprom.bin: the word at address a.
SeepromImage(a) == {15, 14} \cup BitsOf(a)

\* SeepromState::new; data holds the words written since construction.
SeepromStateNew ==
    [in_buf |-> {}, num_bits |-> 0, out_buf |-> <<>>, opcd |-> "Init",
     data |-> <<>>, wren |-> FALSE, addr |-> <<>>, write_buffer |-> <<>>]

\* self.data.read::<u16>(addr * 2) and self.data.write::<u16>(addr * 2, val)
data_in_bounds(addr) == addr * 2 + 2 <= SeepromWords * 2
data_read(s, addr) ==
    IF \E i \in 1..Len(s.data) : s.data[i].addr = addr
    THEN s.data[CHOOSE i \in 1..Len(s.data) : s.data[i].addr = addr].val
    ELSE SeepromImage(addr)
data_write(s, addr, val) ==
    [s EXCEPT !.data = SelectSeq(@, LAMBDA e : e.addr # addr) \o <<[addr |-> addr, val |-> val]>>]

\* SeepromState::reset that leaves the bits shifted in so far in place.
seeprom_reset_KeepBits(s) ==
    [s EXCEPT !.out_buf = <<>>, !.opcd = "Init", !.addr = <<>>, !.write_buffer = <<>>]

\* SeepromState::reset that also clears write-enable.
seeprom_reset_ClearWren(s) ==
    [s EXCEPT !.in_buf = {}, !.out_buf = <<>>, !.num_bits = 0, !.opcd = "Init",
              !.addr = <<>>, !.write_buffer = <<>>, !.wren = FALSE]

\* SeepromState::reset
seeprom_reset(s) ==
    [s EXCEPT !.in_buf = {}, !.out_buf = <<>>, !.num_bits = 0, !.opcd = "Init",
              !.addr = <<>>, !.write_buffer = <<>>]

\* SeepromOp::from_initial and SeepromOp::from_ext; "" is the bail! arm.
from_initial(x) ==
    CASE x = {2} -> "Ext"
      [] x = {2, 0} -> "Write"
      [] x = {2, 1} -> "Read"
      [] x = {2, 1, 0} -> "Erase"
      [] OTHER -> ""
from_ext(x) ==
    CASE x = {4} -> "Ewds"
      [] x = {4, 0} -> "Wral"
      [] x = {4, 1} -> "Eral"
      [] x = {4, 1, 0} -> "Ewen"
      [] OTHER -> ""

\* The result of SeepromState::step: the state, the returned Option<u32>
\* and how the call ended ("none", "err" for a bail!, "panic").
StepRet(s, ret) == [s |-> s, ret |-> ret, fault |-> "none"]
StepErr(s) == [s |-> s, ret |-> <<>>, fault |-> "err"]
StepPanic(s) == [s |-> s, ret |-> <<>>, fault |-> "panic"]

\* step, "Parse the incoming stream of bits": [s, done, fault]; done is the
\* early return of the first bit.
step_parse(s) ==
    CASE s.num_bits = 1 /\ s.in_buf # {0} ->
           [s |-> seeprom_reset(s), done |-> TRUE, fault |-> "none"]
      [] s.num_bits = 3 ->
           IF from_initial(s.in_buf) = ""
           THEN [s |-> s, done |-> FALSE, fault |-> "err"]
           ELSE [s |-> [s EXCEPT !.opcd = from_initial(s.in_buf)], done |-> FALSE,
                 fault |-> "none"]
      [] s.num_bits = 5 /\ s.opcd = "Ext" ->
           IF from_ext(s.in_buf) \in {"Ewen", "Ewds"}
           THEN [s |-> [s EXCEPT !.wren = (from_ext(s.in_buf) = "Ewen")], done |-> FALSE,
                 fault |-> "none"]
           ELSE [s |-> s, done |-> FALSE, fault |-> "err"]
      [] s.num_bits = 11 /\ s.opcd \in {"Read", "Write", "Erase"} ->
           [s |-> [s EXCEPT !.addr = <<NumOf(s.in_buf \cap MaskBits(0, 8))>>], done |-> FALSE,
            fault |-> "none"]
      [] s.num_bits = 27 /\ s.opcd \in {"Write", "Wral"} ->
           [s |-> [s EXCEPT !.write_buffer = <<s.in_buf \cap MaskBits(0, 16)>>],
            done |-> FALSE, fault |-> "none"]
      [] OTHER -> [s |-> s, done |-> FALSE, fault |-> "none"]

\* step, the Read arm of "Handle the actual side effects of commands".  The
\* mask 0x8000 >> bit_idx is a u16: a shift by 16 or more panics in a build
\* that checks overflow, and is taken modulo 16 in one that does not.
step_read(s, input) ==
    IF s.num_bits = 11
    THEN IF data_in_bounds(s.addr[1])
         THEN StepRet([s EXCEPT !.out_buf = <<data_read(s, s.addr[1])>>], <<>>)
         ELSE StepErr(s)
    ELSE IF s.num_bits >= 12
    THEN IF s.num_bits - 12 >= 16 /\ emu.overflow_checks
         THEN StepPanic(s)
         ELSE IF (15 - ((s.num_bits - 12) % 16)) \in s.out_buf[1]
              THEN StepRet(s, <<input \cup SeepromMiso>>)
              ELSE StepRet(s, <<input \ SeepromMiso>>)
    ELSE StepRet(s, <<>>)

\* The Write arm that commits whether or not writing is enabled.
step_write_NoWren(s) ==
    IF s.num_bits = 27
    THEN IF data_in_bounds(s.addr[1])
         THEN StepRet(data_write(s, s.addr[1], s.write_buffer[1]), <<>>)
         ELSE StepErr(s)
    ELSE StepRet(s, <<>>)

\* step, the Write arm.
step_write(s) ==
    IF s.num_bits = 27
    THEN IF s.wren
         THEN IF data_in_bounds(s.addr[1])
              THEN StepRet(data_write(s, s.addr[1], s.write_buffer[1]), <<>>)
              ELSE StepErr(s)
         ELSE StepErr(s)
    ELSE StepRet(s, <<>>)

\* SeepromState::step that presents the latched word least-significant bit
\* first.
step_effects_LsbFirst(s, input) ==
    CASE s.opcd = "Read" ->
           IF s.num_bits >= 12
           THEN IF ((s.num_bits - 12) % 16) \in s.out_buf[1]
                THEN StepRet(s, <<input \cup SeepromMiso>>)
                ELSE StepRet(s, <<input \ SeepromMiso>>)
           ELSE step_read(s, input)
      [] s.opcd = "Write" -> step_write(s)
      [] OTHER -> StepRet(s, <<>>)

\* step, "Handle the actual side effects of commands".
step_effects(s, input) ==
    CASE s.opcd = "Read" -> step_read(s, input)
      [] s.opcd = "Write" -> step_write(s)
      [] OTHER -> StepRet(s, <<>>)

\* SeepromState::step
seeprom_step(s, mosi, input) ==
    Bind(step_parse([s EXCEPT !.in_buf = (Shl(@, 1) \cap AllBits)
                                          \cup (IF mosi THEN {0} ELSE {}),
                              !.num_bits = @ + 1]),
         LAMBDA p : IF p.fault # "none" THEN StepErr(p.s)
                    ELSE IF p.done THEN StepRet(p.s, <<input \cup SeepromMiso>>)
                    ELSE step_effects(p.s, input))

\* ArmGpio::default and GpioInterface::new
ArmGpioDefault ==
    [en |-> {}, output |-> {}, dir |-> {}, input |-> {}, intlvl |-> {}, intflag |-> {},
     intmask |-> {}, straps |-> {}, owner |-> {}]
GpioInterfaceNew ==
    [arm |-> ArmGpioDefault, seeprom |-> SeepromStateNew, lag |-> 0]

\* GpioInterface::handle_seeprom: [gpio, fault]
clk_rise(output, val) == (output \cap SeepromClk) = {} /\ (val \cap SeepromClk) # {}
handle_seeprom(g, val) ==
    Bind(IF (val \cap SeepromCs) = {} THEN [g EXCEPT !.seeprom = seeprom_reset(@)] ELSE g,
         LAMBDA g1 :
           IF (val \cap SeepromCs) # {} /\ clk_rise(g.arm.output, val)
           THEN Bind(seeprom_step(g1.seeprom, (val \cap SeepromMosi) # {}, g1.arm.input),
                     LAMBDA r :
                       IF r.fault # "none"
                       THEN [gpio |-> [g1 EXCEPT !.seeprom = r.s, !.lag = IF @ > -1 THEN @ - 1 ELSE @],
                             fault |-> r.fault]
                       ELSE [gpio |-> [g1 EXCEPT !.seeprom = r.s, !.lag = IF @ > -1 THEN @ - 1 ELSE @,
                                                 !.arm.input = IF r.ret = <<>> THEN @
                                                               ELSE r.ret[1],
                                                 !.arm.output = val],
                             fault |-> "none"])
           ELSE [gpio |-> [g1 EXCEPT !.arm.output = val], fault |-> "none"])

\* GpioInterface::handle_output: [gpio, fault]
SeepromPins == {10, 11, 12}
DebugPins == MaskBits(16, 8)
FanDcdcPins == {2, 3}
SlotLedPin == {5}
handle_output(g, val) ==
    Bind(U32Xor(g.arm.output, val),
         LAMBDA diff :
           IF (diff \cap SeepromPins) # {} THEN handle_seeprom(g, val)
           ELSE IF (diff \cap (DebugPins \cup FanDcdcPins \cup SlotLedPin)) # {}
           THEN [gpio |-> g, fault |-> "none"]
           ELSE [gpio |-> g, fault |-> "err"])

\* ArmGpio::write_handler: [arm, task, ok]; task is the Option<HlwdTask>.
arm_write_handler(arm, off, data) ==
    CASE off = 0 -> [arm |-> [arm EXCEPT !.en = data], task |-> <<>>, ok |-> TRUE]
      [] off = 4 -> [arm |-> arm,
                     task |-> IF U32Xor(arm.output, data) # {} THEN <<data>> ELSE <<>>,
                     ok |-> TRUE]
      [] off = 8 -> [arm |-> [arm EXCEPT !.dir = data], task |-> <<>>, ok |-> TRUE]
      [] off = 16 -> [arm |-> [arm EXCEPT !.intlvl = data], task |-> <<>>, ok |-> TRUE]
      [] off = 20 -> [arm |-> [arm EXCEPT !.intflag = data], task |-> <<>>, ok |-> TRUE]
      [] off = 24 -> [arm |-> [arm EXCEPT !.intmask = data], task |-> <<>>, ok |-> TRUE]
      [] off = 28 -> [arm |-> [arm EXCEPT !.straps = data], task |-> <<>>, ok |-> TRUE]
      [] off = 32 -> [arm |-> [arm EXCEPT !.owner = data], task |-> <<>>, ok |-> TRUE]
      [] OTHER -> [arm |-> arm, task |-> <<>>, ok |-> FALSE]

\* ArmGpio::read_handler: [ok, val]
arm_read_handler(arm, off) ==
    CASE off = 0 -> [ok |-> TRUE, val |-> arm.en]
      [] off = 4 -> [ok |-> TRUE, val |-> arm.output]
      [] off = 8 -> [ok |-> TRUE, val |-> arm.dir]
      [] off = 12 -> [ok |-> TRUE, val |-> arm.input]
      [] off = 16 -> [ok |-> TRUE, val |-> arm.intlvl]
      [] off = 20 -> [ok |-> TRUE, val |-> {}]
      [] off = 24 -> [ok |-> TRUE, val |-> arm.intmask]
      [] off = 28 -> [ok |-> TRUE, val |-> arm.straps]
      [] off = 32 -> [ok |-> TRUE, val |-> arm.owner]
      [] OTHER -> [ok |-> FALSE, val |-> {}]

\* The history field after the guest wrote data at off of the ARM GPIO block:
\* a rising clock edge is one against the value of the output register.
note_written(g, off, data) ==
    IF off = 4 /\ (data \cap SeepromCs) # {} /\ clk_rise(g.arm.output, data) /\ g.lag < 1
    THEN [g EXCEPT !.lag = @ + 1]
    ELSE g

\* Hollywood::new
HollywoodNew ==
    [ipc |-> IpcInterfaceNew,
     timer |-> TimerInterfaceDefault,
     irq |-> IrqInterfaceDefault,
     srnprot |-> {},
     resets |-> {3},
     clocks |-> {},
     spare0 |-> {},
     spare1 |-> {},
     ppc_on |-> FALSE,
     gpio |-> GpioInterfaceNew,
     task |-> <<>>]

NoTask == [kind |-> "None", arg |-> FALSE]

\* Hollywood::write: [hlwd, task, ok]; ok = FALSE is an Err return. The
\* offsets are those of the IPC, timer, IRQ, bus-control, spare, clock and
\* reset registers; any other offset is reported as unimplemented here.
HwOk(h1) == [hlwd |-> h1, task |-> NoTask, ok |-> TRUE]
HwErr(h1) == [hlwd |-> h1, task |-> NoTask, ok |-> FALSE]

hlwd_write(h, off, val) ==
    CASE off \in {0, 4, 8, 12} ->
           Bind(ipc_write_handler(h.ipc, off, val),
                LAMBDA r : IF r.ok THEN HwOk([h EXCEPT !.ipc = r.ipc]) ELSE HwErr(h))
      [] off = 20 -> HwOk([h EXCEPT !.timer.alarm = val])
      [] off \in 48..92 ->
           Bind(irq_write_handler(h.irq, off - 48, val),
                LAMBDA r : IF r.ok THEN HwOk([h EXCEPT !.irq = r.irq]) ELSE HwErr(h))
      [] off \in 220..252 ->
           Bind(arm_write_handler(h.gpio.arm, off - 220, val),
                LAMBDA r : IF r.ok
                           THEN HwOk([h EXCEPT !.gpio = note_written([@ EXCEPT !.arm = r.arm],
                                                                        off - 220, val),
                                               !.task = r.task])
                           ELSE HwErr(h))
      [] off = 96 ->
           [hlwd |-> [h EXCEPT !.srnprot = val],
            task |-> IF 5 \in U32Xor(h.srnprot, val)
                     THEN [kind |-> "SetMirrorEnabled", arg |-> (5 \in val)]
                     ELSE NoTask,
            ok |-> TRUE]
      [] off = 392 ->
           HwOk([h EXCEPT !.spare0 = val,
                          !.spare1 = IF 16 \in val THEN @ \ {0, 3} ELSE @ \cup {0, 3}])
      [] off = 396 ->
           [hlwd |-> [h EXCEPT !.spare1 = val],
            task |-> IF 12 \in U32Xor(h.spare1, val)
                     THEN [kind |-> "SetRomDisabled", arg |-> (12 \in val)]
                     ELSE NoTask,
            ok |-> TRUE]
      [] off = 400 ->
           IF (1 \in val) # (1 \in h.clocks) /\ 0 \notin h.clocks
           THEN HwErr(h)
           ELSE HwOk([h EXCEPT !.clocks = val])
      [] off = 404 ->
           Bind(IF (U32Xor(h.resets, val) \cap {4, 5}) # {}
                THEN [h EXCEPT !.ppc_on = (5 \in val /\ 4 \in val)]
                ELSE h,
                LAMBDA h1 : IF 3 \notin val /\ 0 \notin h.clocks
                            THEN HwErr(h1)
                            ELSE HwOk([h1 EXCEPT !.resets = val]))
      [] OTHER -> HwErr(h)

\* Physical memory map: MEM1 at 0 (24 MiB), nothing up to the Flipper blocks.
Mem1Size == 25165824
FlipperBase == 201326592

(***************************************************************************)
(* The SHA-1 engine (dev/sha.rs, dev/sha/util.rs).  What the engine hashed *)
(* is also recorded by the bus in the history field `hashed`.              *)
(***************************************************************************)
\* Sha1State::new.  buf is scratch, rewritten before each use, and is not
\* kept.  The digest is held as the five words last written to it and the
\* input passed to update since: the words the program holds are
\* Sha1Digest(state), process_message applied to each 64-byte chunk of that
\* input in turn.
Sha1StateNew == [digest |-> <<{}, {}, {}, {}, {}>>, input |-> <<>>]

\* Sha1State (dev/sha/util.rs): the SHA-1 block function on bit-set words.
\* The 32-bit word with the given 16-bit halves.
U32Word(hi, lo) == Shl(BitsOf(hi), 16) \cup BitsOf(lo)

\* u32::rotate_left
rotate_left(v, n) == {(b + n) % 32 : b \in v}

\* k if bit i of v is set, else 0.
BitVal(v, i, k) == IF i \in v THEN k ELSE 0

\* The number held in the 16 bits of v from bit lo up.
HalfOf(v, lo) ==
    BitVal(v, lo, 1) + BitVal(v, lo + 1, 2) + BitVal(v, lo + 2, 4) + BitVal(v, lo + 3, 8)
    + BitVal(v, lo + 4, 16) + BitVal(v, lo + 5, 32) + BitVal(v, lo + 6, 64)
    + BitVal(v, lo + 7, 128) + BitVal(v, lo + 8, 256) + BitVal(v, lo + 9, 512)
    + BitVal(v, lo + 10, 1024) + BitVal(v, lo + 11, 2048) + BitVal(v, lo + 12, 4096)
    + BitVal(v, lo + 13, 8192) + BitVal(v, lo + 14, 16384) + BitVal(v, lo + 15, 32768)

\* The bits lo..lo + 15 of a word whose 16-bit half there is n % 65536.
HalfBits(n, lo) == {lo + i : i \in {j \in 0..15 : (n \div (2 ^ j)) % 2 = 1}}

\* The word with the given sums of low and of high halves, modulo 2^32.
WordOfSums(lo, hi) == HalfBits(lo, 0) \cup HalfBits(hi + (lo \div 65536), 16)

\* u32::wrapping_add
wrapping_add(a, b) == WordOfSums(HalfOf(a, 0) + HalfOf(b, 0), HalfOf(a, 16) + HalfOf(b, 16))

\* a.wrapping_add(b).wrapping_add(c).wrapping_add(d).wrapping_add(e): the
\* sum of the five words modulo 2^32.
wrapping_add5(a, b, c, d, e) ==
    WordOfSums(HalfOf(a, 0) + HalfOf(b, 0) + HalfOf(c, 0) + HalfOf(d, 0) + HalfOf(e, 0),
               HalfOf(a, 16) + HalfOf(b, 16) + HalfOf(c, 16) + HalfOf(d, 16) + HalfOf(e, 16))

\* u32::from_be_bytes
from_be_bytes(b) ==
    Shl(BitsOf(b[1]), 24) \cup Shl(BitsOf(b[2]), 16) \cup Shl(BitsOf(b[3]), 8) \cup BitsOf(b[4])

\* const K: 0x5a82_7999, 0x6ed9_eba1, 0x8f1b_bcdc, 0xca62_c1d6
ShaK == <<U32Word(23170, 31129), U32Word(28377, 60321),
          U32Word(36635, 48348), U32Word(51810, 49622)>>

\* process_message_scalar, `for t in 16..80`, up to word n: each new word
\* of the message schedule from the words 3, 8, 14 and 16 places before it.
RECURSIVE sha_extend(_, _)
sha_extend(w, n) ==
    IF Len(w) >= n THEN w
    ELSE sha_extend(Append(w,
            rotate_left(U32Xor(U32Xor(w[Len(w) - 2], w[Len(w) - 7]),
                               U32Xor(w[Len(w) - 13], w[Len(w) - 15])), 1)), n)

\* The 80 words of the message schedule, from the 16 words of the buffer.
sha_schedule(w) == sha_extend(sha_extend(sha_extend(sha_extend(w, 32), 48), 64), 80)

\* The function of b, c and d that round t adds.
sha_f(t, b, c, d) ==
    IF t < 20 THEN (b \cap c) \cup (U32Not(b) \cap d)
    ELSE IF t >= 40 /\ t < 60 THEN (b \cap c) \cup (b \cap d) \cup (c \cap d)
    ELSE U32Xor(U32Xor(b, c), d)

\* A round that leaves b unrotated.
sha_round_NoRotate(s, t, w) ==
    [a |-> wrapping_add5(rotate_left(s.a, 5), sha_f(t, s.b, s.c, s.d), s.e, w[t + 1],
                         ShaK[(t \div 20) + 1]),
     b |-> s.a, c |-> s.b, d |-> s.c, e |-> s.d]

\* One round of process_message_scalar on the working variables.
sha_round(s, t, w) ==
    [a |-> wrapping_add5(rotate_left(s.a, 5), sha_f(t, s.b, s.c, s.d), s.e, w[t + 1],
                         ShaK[(t \div 20) + 1]),
     b |-> s.a, c |-> rotate_left(s.b, 30), d |-> s.c, e |-> s.d]

\* One of the four loops of 20 rounds, `for t in lo..lo + 20`: ss holds the
\* working variables before round lo and after each round so far.
RECURSIVE sha_loop(_, _, _)
sha_loop(ss, lo, w) ==
    IF Len(ss) > 20 THEN ss[Len(ss)]
    ELSE sha_loop(Append(ss, sha_round(ss[Len(ss)], lo + Len(ss) - 1, w)), lo, w)

\* The four loops in turn.
sha_rounds(s, w) ==
    sha_loop(<<sha_loop(<<sha_loop(<<sha_loop(<<s>>, 0, w)>>, 20, w)>>, 40, w)>>, 60, w)

\* Sha1State::process_message_scalar: the digest after the 64 bytes of buf.
process_message_scalar(digest, buf) ==
    Bind(sha_rounds([a |-> digest[1], b |-> digest[2], c |-> digest[3],
                     d |-> digest[4], e |-> digest[5]],
                    sha_schedule([i \in 1..16 |-> from_be_bytes(SubSeq(buf, 4 * i - 3, 4 * i))])),
         LAMBDA s : <<wrapping_add(digest[1], s.a), wrapping_add(digest[2], s.b),
                      wrapping_add(digest[3], s.c), wrapping_add(digest[4], s.d),
                      wrapping_add(digest[5], s.e)>>)

\* Sha1State::update, `for chunk in input.chunks_exact(64)`: process_message
\* on each 64-byte chunk of the input.
RECURSIVE sha_chunks(_, _)
sha_chunks(digest, input) ==
    IF Len(input) < 64 THEN digest
    ELSE sha_chunks(process_message_scalar(digest, SubSeq(input, 1, 64)),
                    SubSeq(input, 65, Len(input)))

\* The five digest words of a Sha1State.
Sha1Digest(state) == sha_chunks(state.digest, state.input)

\* Sha1State::update
sha_update(state, input) == [state EXCEPT !.input = @ \o input]

\* self.state.digest[i] = val
set_digest(state, i, val) ==
    [digest |-> [Sha1Digest(state) EXCEPT ![i] = val], input |-> <<>>]

\* ShaInterface::new
ShaInterfaceNew == [ctrl |-> {}, src |-> {}, state |-> Sha1StateNew]

\* The registers of the SHA block that hold the digest.
ShaDigestOffsets == {8, 12, 16, 20, 24}

\* ShaInterface::write: [sha, task, ok]
sha_write(sha, off, val) ==
    CASE off = 0 ->
           [sha |-> [sha EXCEPT !.ctrl = val],
            task |-> IF 31 \in val THEN [kind |-> "Sha", arg |-> val] ELSE NoTask,
            ok |-> TRUE]
      [] off = 4 -> [sha |-> [sha EXCEPT !.src = val], task |-> NoTask, ok |-> TRUE]
      [] off \in ShaDigestOffsets ->
           [sha |-> [sha EXCEPT !.state = set_digest(@, ((off - 8) \div 4) + 1, val)],
            task |-> NoTask, ok |-> TRUE]
      [] OTHER -> [sha |-> sha, task |-> NoTask, ok |-> FALSE]

(***************************************************************************)
(* The bus (bus.rs, bus/mmio.rs) and the SDHC task handler (dev/sdhc.rs).  *)
(* `who` is a history field: the thread and CPU cycle on whose behalf the  *)
(* bus is being accessed; it is copied into each task pushed so that a     *)
(* task's origin can be told when it is executed.  `fault` records how the *)
(* last bus operation ended: "none", "err" (an Err return) or "panic".     *)
(* `executed` and `asserted` are history fields too: the tasks run by the   *)
(* latest drain, in the order they ran and with the CPU cycle the bus step *)
(* was given, and the interrupt sources on which the latest bus step       *)
(* called IrqInterface::assert.  `hashed` is one as well: the byte ranges  *)
(* the latest bus step passed to Sha1State::update, each with its number   *)
(* of 64-byte blocks and whether the SHA interrupt was asserted after it.  *)
(***************************************************************************)
\* Bus::new
BusNew(card_available) ==
    [hlwd |-> HollywoodNew,
     sd0 |-> SDInterfaceDefault(card_available),
     sha |-> ShaInterfaceNew,
     hashed |-> <<>>,
     rom_disabled |-> FALSE,
     mirror_enabled |-> FALSE,
     tasks |-> <<>>,
     cycle |-> 0,
     executed |-> <<>>,
     asserted |-> {},
     who |-> [by |-> "bus", step |-> 0],
     fault |-> "none"]

\* self.tasks.push(Task { kind, target_cycle })
push_task(b, kind, target_cycle) ==
    [b EXCEPT !.tasks = Append(@, [kind |-> kind, target_cycle |-> target_cycle,
                                   by |-> b.who.by, sched |-> b.who.step])]

\* Bus::do_mmio_write, the device's write handler: [bus, task, fault].
dispatch_write(b, dev, off, val) ==
    IF dev = "Hlwd"
    THEN Bind(hlwd_write(b.hlwd, off, val),
              LAMBDA w : [bus |-> [b EXCEPT !.hlwd = w.hlwd], task |-> w.task,
                          fault |-> IF w.ok THEN "none" ELSE "err"])
    ELSE IF dev = "Sha"
    THEN Bind(sha_write(b.sha, off, val),
              LAMBDA w : [bus |-> [b EXCEPT !.sha = w.sha], task |-> w.task,
                          fault |-> IF w.ok THEN "none" ELSE "err"])
    ELSE Bind(sd_write(b.sd0, off, val),
              LAMBDA w : [bus |-> [b EXCEPT !.sd0 = w.sd],
                          task |-> IF w.task = "" THEN NoTask
                                   ELSE [kind |-> "SDHC", arg |-> w.task],
                          fault |-> IF w.ok THEN "none" ELSE "panic"])

\* Bus::do_mmio_write that schedules the returned task one cycle late.
do_mmio_write_Late(b, dev, off, val) ==
    Bind(dispatch_write(b, dev, off, val),
         LAMBDA r : IF r.fault # "none" THEN [r.bus EXCEPT !.fault = r.fault]
                    ELSE IF r.task # NoTask THEN push_task(r.bus, r.task, b.cycle + 1)
                    ELSE r.bus)

\* Bus::do_mmio_write for a word write to the Hollywood block or to SDHC 0.
do_mmio_write(b, dev, off, val) ==
    Bind(dispatch_write(b, dev, off, val),
         LAMBDA r : IF r.fault # "none" THEN [r.bus EXCEPT !.fault = r.fault]
                    ELSE IF r.task # NoTask THEN push_task(r.bus, r.task, b.cycle)
                    ELSE r.bus)

\* self.hlwd.irq.assert(HollywoodIrq::Sdhc)
AssertSdhc(x) == [x EXCEPT !.hlwd.irq = irq_assert(@, IrqSdhc), !.asserted = @ \cup IrqSdhc]

\* self.tasks.push of an SDHC task IOPollDelay cycles ahead
Poll(x, kind) == push_task(x, [kind |-> "SDHC", arg |-> kind], x.cycle + IOPollDelay)

\* 32-bit unsigned arithmetic on register words, by 16-bit halves.
U32Hi(v) == NumOf(Shr(v, 16))
U32Lo(v) == NumOf(v \cap MaskBits(0, 16))
U32Lt(a, b) == U32Hi(a) < U32Hi(b) \/ (U32Hi(a) = U32Hi(b) /\ U32Lo(a) < U32Lo(b))

\* u32::checked_add: [ok, val]; val is the wrapped sum.
checked_add(a, b) ==
    LET lo == U32Lo(a) + U32Lo(b)
        hi == U32Hi(a) + U32Hi(b) + (lo \div 65536)
    IN [ok |-> hi < 65536,
        val |-> BitsOf(lo % 65536) \cup Shl(BitsOf(hi % 65536), 16)]

\* The SDMA buffer boundary selected by bits 12-14 of the BlockSize word, as
\* the position of its single set bit.
buff_boundry(sd) == 12 + NumOf(Shr(raw_read(sd, 4) \cap {12, 13, 14}, 12))

\* The address at which a DMA burst from sysaddr stops.
stop_addr(sysaddr, boundry) ==
    Bind(checked_add(sysaddr, {boundry}),
         LAMBDA x : IF x.ok THEN checked_add(x.val, {0}).val \ MaskBits(0, boundry)
                    ELSE AllBits)

\* The block loop of a DMA burst: one 512-byte block per round while the
\* next block ends below the stop address and blocks remain.  The data
\* itself (Bus::dma_read / dma_write) is not part of the register state.  The
\* sums are the wrapped ones; the addresses software writes here stay far
\* below the top of the address space.
RECURSIVE dma_blocks(_, _, _, _)
dma_blocks(current_addr, stop, block_count, rw_index) ==
    IF U32Lt(checked_add(current_addr, {9}).val, stop) /\ block_count > 0
    THEN dma_blocks(checked_add(current_addr, {9}).val, stop, block_count - 1, rw_index + 512)
    ELSE [current_addr |-> current_addr, block_count |-> block_count, rw_index |-> rw_index]

\* Bus::handle_task_sdhc, DoDMARead and DoDMAWrite, which differ only in the
\* direction of the data: the burst, the register write-back, and the
\* completion interrupt.
do_dma(b) ==
    Bind(stop_addr(raw_read(b.sd0, 0), buff_boundry(b.sd0)),
         LAMBDA stop :
    Bind(dma_blocks(raw_read(b.sd0, 0), stop, NumOf(Shr(raw_read(b.sd0, 4), 16)),
                    b.sd0.device.rw_index),
         LAMBDA d :
    Bind(setreg(setreg([b.sd0 EXCEPT !.device.rw_index = d.rw_index],
                       "BlockCount", BitsOf(d.block_count)),
                "SystemAddress", d.current_addr),
         LAMBDA s :
           IF d.block_count = 0
           THEN Bind(tx_complete(s),
                     LAMBDA r : IF r.ret THEN AssertSdhc([b EXCEPT !.sd0 = r.sd])
                                ELSE [b EXCEPT !.sd0 = r.sd])
           ELSE IF ~U32Lt(d.current_addr, stop)
           THEN Bind(dma_int(s),
                     LAMBDA r : IF r.ret THEN AssertSdhc([b EXCEPT !.sd0 = r.sd])
                                ELSE [b EXCEPT !.sd0 = r.sd])
           ELSE [b EXCEPT !.sd0 = s, !.fault = "panic"])))

\* Bus::handle_task_sdhc
handle_task_sdhc(b, task) ==
    CASE task = "RaiseInt" -> AssertSdhc(b)
      [] task = "SendBufReadReady" ->
           Bind(buffer_ready_read(b.sd0),
                LAMBDA r : IF r.ret THEN AssertSdhc(Poll([b EXCEPT !.sd0 = r.sd], "IOPoll"))
                           ELSE [b EXCEPT !.sd0 = r.sd, !.fault = "panic"])
      [] task = "SendBufWriteReady" ->
           Bind(buffer_ready_write(b.sd0),
                LAMBDA r : IF r.ret THEN AssertSdhc(Poll([b EXCEPT !.sd0 = r.sd], "IOPoll"))
                           ELSE [b EXCEPT !.sd0 = r.sd, !.fault = "panic"])
      [] task \in {"DoDMARead", "DoDMAWrite"} -> do_dma(b)
      [] task = "IOPoll" ->
           IF b.sd0.device.tx_status \in {"MultiReadInProgress", "MultiWriteInProgress"}
           THEN IF b.sd0.device.rw_index >= b.sd0.device.rw_stop
                THEN IF NumOf(Shr(raw_read(b.sd0, 4), 16)) > 0
                     THEN Poll(b, IF b.sd0.device.tx_status = "MultiReadInProgress"
                                  THEN "SendBufReadReady" ELSE "SendBufWriteReady")
                     ELSE Bind(tx_complete(b.sd0),
                               LAMBDA r : IF r.ret THEN AssertSdhc([b EXCEPT !.sd0 = r.sd])
                                          ELSE [b EXCEPT !.sd0 = r.sd])
                ELSE Poll(b, "IOPoll")
           ELSE b
      [] OTHER -> b

\* if cond { self.hlwd.irq.assert(irq) }, with the call recorded
assert_if(b, cond, irq) ==
    IF cond THEN [b EXCEPT !.hlwd.irq = irq_assert(@, irq), !.asserted = @ \cup irq] ELSE b

\* impl From<u32> for ShaCommand whose length leaves out the + 1.
ShaCommand_NoPlusOne(x) ==
    [irq |-> 30 \in x, len |-> NumOf(x \cap MaskBits(0, 12)) * 64]

\* impl From<u32> for ShaCommand
ShaCommand(x) ==
    [irq |-> 30 \in x, len |-> (NumOf(x \cap MaskBits(0, 12)) + 1) * 64]

\* Bus::dma_read of len bytes at pa: TRUE for Ok.  DMA respects the bounds
\* of memory, here of MEM1.
dma_read(pa, len) ==
    Bind(checked_add(pa, BitsOf(len)),
         LAMBDA e : e.ok /\ ~U32Lt(BitsOf(Mem1Size), e.val))

\* The contents of MEM1 while the engine runs.  Software has stored two
\* padded messages at its start: "abc" in one block at 0, and the 56 bytes
\* "abcdbcdecdefdefgefghfghighijhijkijkljklmklmnlmnomnopnopq" in two blocks
\* at 64; the rest of the memory holds zeroes.
ShaMessageAbc == <<97, 98, 99, 128>> \o [i \in 1..59 |-> 0] \o <<24>>

ShaMessageTwoBlocks ==
    [i \in 1..56 |-> 97 + ((i - 1) \div 4) + ((i - 1) % 4)]
    \o <<128>> \o [i \in 1..69 |-> 0] \o <<1, 192>>

Mem1Image == ShaMessageAbc \o ShaMessageTwoBlocks

\* The bytes Bus::dma_read copies out of MEM1 when the read is in bounds.
dma_read_bytes(pa, len) ==
    [i \in 1..len |-> IF NumOf(pa) + i <= Len(Mem1Image) THEN Mem1Image[NumOf(pa) + i] ELSE 0]

\* self.sha.src += cmd.len: a sum past 2^32 panics in a build that checks
\* overflow and wraps in one that does not.
sha_advance(b, cmd) ==
    Bind(checked_add(b.sha.src, BitsOf(cmd.len)),
         LAMBDA e : IF ~e.ok /\ emu.overflow_checks
                    THEN [b EXCEPT !.fault = "panic"]
                    ELSE [b EXCEPT !.sha.src = e.val, !.sha.ctrl = @ \ {31}])

\* Bus::handle_task_sha
handle_task_sha(b, val) ==
    Bind(ShaCommand(val),
         LAMBDA cmd :
           IF ~dma_read(b.sha.src, cmd.len) THEN [b EXCEPT !.fault = "err"]
           ELSE Bind(sha_advance([b EXCEPT !.hashed = Append(@, [addr |-> b.sha.src,
                                                                    len |-> cmd.len,
                                                                    blocks |-> cmd.len \div 64,
                                                                    irq |-> cmd.irq]),
                                            !.sha.state =
                                                sha_update(@, dma_read_bytes(b.sha.src, cmd.len))],
                                 cmd),
                     LAMBDA b1 : IF b1.fault # "none" THEN b1
                                 ELSE assert_if(b1, cmd.irq, IrqSha)))

\* One task taken off the queue by Bus::drain_tasks.
run_task(b, task) ==
    CASE task.kind.kind = "SetRomDisabled" ->
           [b EXCEPT !.executed = Append(@, [task |-> task, at |-> b.who.step]),
                     !.rom_disabled = task.kind.arg]
      [] task.kind.kind = "SetMirrorEnabled" ->
           [b EXCEPT !.executed = Append(@, [task |-> task, at |-> b.who.step]),
                     !.mirror_enabled = task.kind.arg]
      [] task.kind.kind = "Sha" ->
           handle_task_sha([b EXCEPT !.executed = Append(@, [task |-> task, at |-> b.who.step])],
                           task.kind.arg)
      [] task.kind.kind = "SDHC" ->
           handle_task_sdhc([b EXCEPT !.executed = Append(@, [task |-> task, at |-> b.who.step])],
                            task.kind.arg)
      [] OTHER -> [b EXCEPT !.executed = Append(@, [task |-> task, at |-> b.who.step])]

\* Vec::remove(idx) on the task queue
remove_task(b, idx) ==
    [b EXCEPT !.tasks = SubSeq(@, 1, idx - 1) \o SubSeq(@, idx + 1, Len(@))]

\* Bus::drain_tasks that steps over the element following each removal.
RECURSIVE drain_tasks_SkipNext(_, _)
drain_tasks_SkipNext(b, idx) ==
    IF idx > Len(b.tasks) \/ b.fault # "none" THEN b
    ELSE IF b.tasks[idx].target_cycle <= b.cycle
         THEN drain_tasks_SkipNext(run_task(remove_task(b, idx), b.tasks[idx]), idx + 1)
         ELSE drain_tasks_SkipNext(b, idx + 1)

\* Bus::drain_tasks: the loop from index idx (1-based here) on; a panic in a
\* task handler ends it.
RECURSIVE drain_tasks(_, _)
drain_tasks(b, idx) ==
    IF idx > Len(b.tasks) \/ b.fault # "none" THEN b
    ELSE IF b.tasks[idx].target_cycle <= b.cycle
         THEN drain_tasks(run_task(remove_task(b, idx), b.tasks[idx]), idx)
         ELSE drain_tasks(b, idx + 1)

\* Bus::handle_step_hlwd, the pending HlwdTask.
run_hlwd_task(b) ==
    IF b.hlwd.task = <<>> THEN b
    ELSE Bind(handle_output(b.hlwd.gpio, b.hlwd.task[1]),
              LAMBDA r : IF r.fault = "none"
                         THEN [b EXCEPT !.hlwd.gpio = r.gpio, !.hlwd.task = <<>>]
                         ELSE [b EXCEPT !.hlwd.gpio = r.gpio, !.fault = r.fault])

\* Bus::handle_step_hlwd
handle_step_hlwd(b, cpu_cycle) ==
    Bind(timer_step(b.hlwd.timer, cpu_cycle),
         LAMBDA t :
           run_hlwd_task(assert_if(assert_if(assert_if([b EXCEPT !.hlwd.timer = t.timer],
                                         t.ret, IrqTimer),
                               assert_ppc_irq(b.hlwd.ipc), IrqPpcIpc),
                     assert_arm_irq(b.hlwd.ipc), IrqArmIpc)))

\* Bus::step, after the Hollywood step: the drain and the cycle counter, which
\* advances only when the step returns Ok.
step_tail(b1) ==
    Bind(IF b1.tasks # <<>> THEN drain_tasks(b1, 1) ELSE b1,
         LAMBDA b2 : IF b2.fault # "none" THEN b2 ELSE [b2 EXCEPT !.cycle = @ + 1])

\* Bus::step
bus_step(b, cpu_cycle) ==
    step_tail(handle_step_hlwd([b EXCEPT !.executed = <<>>, !.asserted = {}, !.hashed = <<>>,
                                         !.fault = "none",
                                         !.who = [by |-> "bus", step |-> cpu_cycle]],
                               cpu_cycle))

(***************************************************************************)
(* The CPU as the run loop sees it (back/src/interp.rs, core/src/cpu.rs).  *)
(* pc is the fetch PC.  `taken` is a history field: the exception the      *)
(* latest CPU step generated at its top, or "None".                        *)
(***************************************************************************)
\* The vector page selected by the control register, and the IRQ vector.
VectorBase == 0
IrqVector == VectorBase + 24

RegIdx == {0, 1, 13, 14}

\* The processor modes the model enters, and the SWI vector.
Modes == {"Usr", "Svc", "Irq"}
SwiVector == VectorBase + 8

\* The banked copies of R13/R14 of a mode.  `id` is a history tag that
\* travels with the contents: the mode whose registers the slot holds.
BankOf(m) == [r13 |-> 0, r14 |-> 0, id |-> m]

\* Cpu::new: Supervisor mode at the reset vector, interrupts masked.  `bank`
\* is the tag of the registers that are active; `bl` is a history field: the
\* address and immediate of the latest Thumb BL prefix executed, and whether
\* an IRQ exception has been taken since.
CpuNew ==
    [pc |-> VectorBase, thumb |-> FALSE, irq_disable |-> TRUE, irq_input |-> FALSE,
     mode |-> "Svc", reg |-> [r \in RegIdx |-> 0],
     spsr |-> [thumb |-> FALSE, irq_disable |-> TRUE, mode |-> "Svc"],
     scratch |-> 0, taken |-> "None",
     bank |-> "Svc", banked |-> [m \in Modes |-> BankOf(m)],
     bl |-> [set |-> FALSE, at |-> 0, imm |-> 0, intr |-> FALSE]]

\* RegisterFile::swap_bank: the active R13/R14 go to the slot of `from`, the
\* slot of `to` becomes active.
swap_bank(c, from, to) ==
    IF from = to THEN c
    ELSE [c EXCEPT !.banked[from] = [r13 |-> c.reg[13], r14 |-> c.reg[14], id |-> c.bank],
                   !.reg[13] = c.banked[to].r13,
                   !.reg[14] = c.banked[to].r14,
                   !.bank = c.banked[to].id]

\* Cpu::generate_exception: rebank, save the CPSR, store the return address,
\* mask IRQs, leave Thumb state, jump to the vector.
generate_exception(c, m, ret, vector, kind) ==
    [swap_bank(c, c.mode, m)
       EXCEPT !.spsr = [thumb |-> c.thumb, irq_disable |-> c.irq_disable, mode |-> c.mode],
              !.mode = m,
              !.reg[14] = ret,
              !.irq_disable = TRUE,
              !.thumb = FALSE,
              !.pc = vector,
              !.taken = kind,
              !.bl.intr = (@ \/ kind = "Irq")]

\* Cpu::generate_exception(ExceptionType::Irq)
generate_exception_irq(c) == generate_exception(c, "Irq", c.pc + 4, IrqVector, "Irq")

\* Cpu::generate_exception(ExceptionType::Swi): the return address is the
\* instruction after the SVC.
generate_exception_swi(c) ==
    generate_exception(c, "Svc", c.pc + (IF c.thumb THEN 2 ELSE 4), SwiVector, "Swi")

\* Cpu::exception_return: the CPSR comes back from the SPSR of the current
\* mode (rebanking), the PC is new_pc & ~1, Thumb is the low bit of new_pc.
exception_return(c, new_pc) ==
    [swap_bank(c, c.mode, c.spsr.mode)
       EXCEPT !.mode = c.spsr.mode,
              !.irq_disable = c.spsr.irq_disable,
              !.thumb = (new_pc % 2 # 0),
              !.pc = new_pc - (new_pc % 2)]

\* Cpu::increment_pc
increment_pc(c) == [c EXCEPT !.pc = @ + (IF c.thumb THEN 2 ELSE 4)]

\* cpu_step, the IRQ sample at its top, with the CPSR mask ignored.
sample_irq_Unmasked(c) ==
    IF c.irq_input THEN generate_exception_irq(c) ELSE c

\* cpu_step, the IRQ sample at its top (interp.rs 283-287).
sample_irq(c) ==
    IF ~c.irq_disable /\ c.irq_input THEN generate_exception_irq(c) ELSE c

(***************************************************************************)
(* Memory as the instruction handlers see it (core/src/cpu/mmu.rs).  A CPU *)
(* word (a register, an address) is carried as the integer congruent to it *)
(* modulo 2^32 in -2^31..2^31-1, so 0 - 4 is -4, which stands for          *)
(* 0xFFFF_FFFC.  The contents of memory are not kept: the words a step     *)
(* loads come from `mem.v`, in the order the handler loads them, and       *)
(* `mem.hi` says whether the windows above the Flipper base decode to a    *)
(* device at the address accessed.                                         *)
(***************************************************************************)
\* Words found in memory and so in registers: an ARM target, a target with
\* bit 1 set, a Thumb target (bit 0 set), and an address just past MEM1.
Val == {0, 2, 5, Mem1Size}

\* The bus decode of a physical address: does it resolve to a device?
Mapped(addr, hi) ==
    IF 0 <= addr /\ addr < Mem1Size THEN TRUE
    ELSE IF Mem1Size <= addr /\ addr < FlipperBase THEN FALSE
    ELSE hi

\* Cpu::read32: translate (the MMU is off after reset, so the physical
\* address is the virtual one), then the bus read; k counts the step's loads.
read32(mem, addr, k) ==
    IF Mapped(addr, mem.hi) THEN [ok |-> TRUE, val |-> mem.v[k]]
    ELSE [ok |-> FALSE, val |-> 0]

\* Cpu::write32: TRUE for Ok(()), FALSE for Err.
write32(mem, addr) == Mapped(addr, mem.hi)

\* a + b and a - b on u32 for 0 <= b < 2^31: the wrapped result, and whether
\* the exact result leaves 0..2^32-1 (a panic where overflow is checked).
u32_add(a, b) == [val |-> a + b, of |-> (a < 0 /\ a + b >= 0)]
u32_sub(a, b) == [val |-> a - b, of |-> (0 <= a /\ a < b)]

\* x & 0xffff_fffe, x & 0xffff_fffc and x | 1
ClearBit0(x) == x - (x % 2)
ClearBits10(x) == x - (x % 4)
SetBit0(x) == x + 1 - (x % 2)

\* Cpu::read_exec_pc / write_exec_pc, CPSR set_thumb
read_exec_pc(c) == c.pc + (IF c.thumb THEN 4 ELSE 8)
write_exec_pc(c, val) == [c EXCEPT !.pc = val]
set_thumb(c, t) == [c EXCEPT !.thumb = t]

\* What a handler hands back: the CPU, the DispatchRes ("Panic" when the
\* handler panicked instead of returning), whether an address translation
\* or bus access it performed failed, and the words it stored, in order.
ResS(c, res, failed, stored) == [cpu |-> c, res |-> res, failed |-> failed, stored |-> stored]
Res(c, res, failed) == ResS(c, res, failed, <<>>)

\* The registers of a register list in ascending order.
RECURSIVE RegSeq(_)
RegSeq(list) ==
    IF list = {} THEN <<>>
    ELSE <<CHOOSE x \in list : \A y \in list : x <= y>>
         \o RegSeq(list \ {CHOOSE x \in list : \A y \in list : x <= y})

(***************************************************************************)
(* ARM load/store handlers (back/src/interp/arm/loadstore.rs).             *)
(***************************************************************************)
\* do_amode: [ok, addr, wb]
do_amode(rn, imm, u, p, w) ==
    CASE ~p /\ ~w -> [ok |-> TRUE, addr |-> rn, wb |-> IF u THEN rn + imm ELSE rn - imm]
      [] p /\ ~w -> [ok |-> TRUE, addr |-> IF u THEN rn + imm ELSE rn - imm, wb |-> rn]
      [] p /\ w -> [ok |-> TRUE, addr |-> IF u THEN rn + imm ELSE rn - imm,
                    wb |-> IF u THEN rn + imm ELSE rn - imm]
      [] OTHER -> [ok |-> FALSE, addr |-> 0, wb |-> 0]

\* do_amode_lit
do_amode_lit(pc, imm, p, u) ==
    IF p /\ u THEN pc + imm ELSE IF p THEN pc - imm ELSE pc

\* ldr_imm, from the result of the read on
arm_ldr_imm_load(c, op, r) ==
    IF ~r.ok THEN Res(c, "FatalErr", TRUE)
    ELSE IF op.rt = 15
    THEN Res(write_exec_pc(set_thumb(c, r.val % 2 # 0), ClearBit0(r.val)),
             "RetireBranch", FALSE)
    ELSE Res([c EXCEPT !.reg[op.rt] = r.val], "RetireOk", FALSE)

\* ldr_imm
arm_ldr_imm(c, op, mem, oc) ==
    IF op.rn = 15
    THEN IF op.w THEN Res(c, "Panic", FALSE)
         ELSE arm_ldr_imm_load(c, op,
                  read32(mem, do_amode_lit(read_exec_pc(c), op.imm, op.p, op.u), 1))
    ELSE Bind(do_amode(c.reg[op.rn], op.imm, op.u, op.p, op.w),
              LAMBDA a : IF ~a.ok THEN Res(c, "FatalErr", FALSE)
                         ELSE arm_ldr_imm_load([c EXCEPT !.reg[op.rn] = a.wb], op,
                                               read32(mem, a.addr, 1)))

\* str_imm
arm_str_imm(c, op, mem, oc) ==
    Bind(do_amode(c.reg[op.rn], op.imm, op.u, op.p, op.w),
         LAMBDA a : IF ~a.ok THEN Res(c, "FatalErr", FALSE)
                    ELSE IF write32(mem, a.addr)
                    THEN Res([c EXCEPT !.reg[op.rn] = a.wb], "RetireOk", FALSE)
                    ELSE Res([c EXCEPT !.reg[op.rn] = a.wb], "FatalErr", TRUE))

\* ldr_reg, from the result of the read on
arm_ldr_reg_load(c, op, wb, r) ==
    IF ~r.ok THEN Res(c, "FatalErr", TRUE)
    ELSE IF op.rt = 15
    THEN Res(write_exec_pc([c EXCEPT !.reg[op.rn] = wb], r.val), "RetireBranch", FALSE)
    ELSE Res([c EXCEPT !.reg[op.rn] = wb, !.reg[op.rt] = r.val], "RetireOk", FALSE)

\* ldr_reg, the offset register taken unshifted (LSL #0)
arm_ldr_reg(c, op, mem, oc) ==
    Bind(do_amode(c.reg[op.rn], c.reg[op.rm], op.u, op.p, op.w),
         LAMBDA a : IF ~a.ok THEN Res(c, "FatalErr", FALSE)
                    ELSE arm_ldr_reg_load(c, op, a.wb, read32(mem, a.addr, 1)))

\* The start address of a load/store multiple: [val, of]
multi_start(c, op) ==
    Bind(IF op.u THEN [val |-> c.reg[op.rn], of |-> FALSE]
         ELSE u32_sub(c.reg[op.rn], 4 * Cardinality(op.list)),
         LAMBDA b : IF op.p = op.u THEN [val |-> b.val + 4, of |-> b.of \/ u32_add(b.val, 4).of]
                    ELSE b)

\* The store loop of a store-multiple: [ok, stored]; R15 is stored as pcval.
RECURSIVE stm_stores(_, _, _, _, _)
stm_stores(c, regs, addr, mem, pcval) ==
    IF regs = <<>> THEN [ok |-> TRUE, stored |-> <<>>]
    ELSE IF ~write32(mem, addr) THEN [ok |-> FALSE, stored |-> <<>>]
    ELSE Bind(stm_stores(c, Tail(regs), addr + 4, mem, pcval),
              LAMBDA t : [ok |-> t.ok,
                          stored |-> <<IF Head(regs) = 15 THEN pcval ELSE c.reg[Head(regs)]>>
                                     \o t.stored])

\* stm_user, from the swap to the User bank on
stm_user_xfer(c, u, op, mem, addr) ==
    Bind(stm_stores(u, RegSeq(op.list), addr, mem, 0),
         LAMBDA t : IF ~t.ok THEN ResS(u, "FatalErr", TRUE, t.stored)
                    ELSE ResS(swap_bank(u, "Usr", c.mode), "RetireOk", FALSE, t.stored))

\* stm_user
arm_stm_user(c, op, mem, oc) ==
    IF op.rn = 15 THEN Res(c, "Panic", FALSE)
    ELSE Bind(multi_start(c, op),
              LAMBDA a : IF a.of /\ oc THEN Res(c, "Panic", FALSE)
                         ELSE stm_user_xfer(c, swap_bank(c, c.mode, "Usr"), op, mem, a.val))

\* The load loop of ldm_user / ldm_user_pc: [cpu, ok, addr, k]
RECURSIVE ldm_loads(_, _, _, _, _)
ldm_loads(c, regs, addr, mem, k) ==
    IF regs = <<>> THEN [cpu |-> c, ok |-> TRUE, addr |-> addr, k |-> k]
    ELSE IF ~read32(mem, addr, k).ok THEN [cpu |-> c, ok |-> FALSE, addr |-> addr, k |-> k]
    ELSE ldm_loads([c EXCEPT !.reg[Head(regs)] = read32(mem, addr, k).val],
                   Tail(regs), addr + 4, mem, k + 1)

\* ldm_user_pc, after the loop over R0..R14
ldm_user_pc_tail(l, op, mem) ==
    IF ~l.ok THEN Res(l.cpu, "FatalErr", TRUE)
    ELSE IF ~read32(mem, l.addr, l.k).ok THEN Res(l.cpu, "FatalErr", TRUE)
    ELSE Res(exception_return(IF op.w THEN [l.cpu EXCEPT !.reg[op.rn] = l.addr + 4]
                              ELSE l.cpu,
                              read32(mem, l.addr, l.k).val),
             "RetireBranch", FALSE)

\* ldm_user without R15, after the loop
ldm_user_tail(c, l) ==
    IF ~l.ok THEN Res(l.cpu, "FatalErr", TRUE)
    ELSE Res(swap_bank(l.cpu, "Usr", c.mode), "RetireOk", FALSE)

\* ldm_user and ldm_user_pc
arm_ldm_user(c, op, mem, oc) ==
    IF op.rn = 15 THEN Res(c, "Panic", FALSE)
    ELSE Bind(multi_start(c, op),
              LAMBDA a :
                IF a.of /\ oc THEN Res(c, "Panic", FALSE)
                ELSE IF 15 \in op.list
                THEN ldm_user_pc_tail(ldm_loads(swap_bank(c, c.mode, "Usr"),
                                                RegSeq(op.list \ {15}), a.val, mem, 1),
                                      op, mem)
                ELSE ldm_user_tail(c, ldm_loads(swap_bank(c, c.mode, "Usr"),
                                                RegSeq(op.list), a.val, mem, 1)))

\* stm / stmdb, from the store loop on
stm_finish(c, op, t, wb) ==
    IF ~t.ok THEN ResS(c, "FatalErr", TRUE, t.stored)
    ELSE ResS(IF op.w THEN [c EXCEPT !.reg[op.rn] = wb] ELSE c, "RetireOk", FALSE, t.stored)

\* stm (increment after)
arm_stm(c, op, mem, oc) ==
    IF op.rn = 15 THEN Res(c, "Panic", FALSE)
    ELSE Bind(u32_add(c.reg[op.rn], 4 * Cardinality(op.list)),
              LAMBDA e : IF e.of /\ oc THEN Res(c, "Panic", FALSE)
                         ELSE stm_finish(c, op,
                                         stm_stores(c, RegSeq(op.list), c.reg[op.rn], mem,
                                                    read_exec_pc(c)),
                                         e.val))

\* stmdb
arm_stmdb(c, op, mem, oc) ==
    IF op.rn = 15 THEN Res(c, "Panic", FALSE)
    ELSE Bind(u32_sub(c.reg[op.rn], 4 * Cardinality(op.list)),
              LAMBDA a : IF a.of /\ oc THEN Res(c, "Panic", FALSE)
                         ELSE stm_finish(c, op,
                                         stm_stores(c, RegSeq(op.list), a.val, mem,
                                                    read_exec_pc(c)),
                                         a.val))

\* Cpu::read16: the halfword at the address, a u16.
read16(mem, addr, k) ==
    IF Mapped(addr, mem.hi) THEN [ok |-> TRUE, val |-> mem.v[k] % 65536]
    ELSE [ok |-> FALSE, val |-> 0]

\* ldrh_imm: the destination is written first, the base second.
arm_ldrh_imm(c, op, mem, oc) ==
    IF op.rt = 15 THEN Res(c, "Panic", FALSE)
    ELSE Bind(do_amode(c.reg[op.rn], op.imm, op.u, op.p, op.w),
              LAMBDA a : IF ~a.ok THEN Res(c, "FatalErr", FALSE)
                         ELSE IF ~read16(mem, a.addr, 1).ok THEN Res(c, "FatalErr", TRUE)
                         ELSE Res([[c EXCEPT !.reg[op.rt] = read16(mem, a.addr, 1).val]
                                      EXCEPT !.reg[op.rn] = a.wb],
                                  "RetireOk", FALSE))

\* ldmia, the writeback after the loop
ldmia_wb(c, op, wb) == IF op.w THEN [c EXCEPT !.reg[op.rn] = wb] ELSE c

\* ldmia, R15 in the list: new_pc is the loaded word with bit 0 cleared, and
\* the Thumb flag is set to (new_pc & 1 != 1).
ldmia_pc_tail(l, op, mem, wb) ==
    IF ~l.ok THEN Res(l.cpu, "FatalErr", TRUE)
    ELSE IF ~read32(mem, l.addr, l.k).ok THEN Res(l.cpu, "FatalErr", TRUE)
    ELSE Bind(ClearBit0(read32(mem, l.addr, l.k).val),
              LAMBDA new_pc :
                Res(ldmia_wb(write_exec_pc(set_thumb(l.cpu, new_pc % 2 # 1), new_pc), op, wb),
                    "RetireBranch", FALSE))

\* ldmia without R15, after the loop
ldmia_tail(l, op, wb) ==
    IF ~l.ok THEN Res(l.cpu, "FatalErr", TRUE)
    ELSE Res(ldmia_wb(l.cpu, op, wb), "RetireOk", FALSE)

\* ldmia
arm_ldmia(c, op, mem, oc) ==
    IF op.rn = 15 THEN Res(c, "Panic", FALSE)
    ELSE Bind(u32_add(c.reg[op.rn], 4 * Cardinality(op.list)),
              LAMBDA e :
                IF e.of /\ oc THEN Res(c, "Panic", FALSE)
                ELSE IF 15 \in op.list
                THEN ldmia_pc_tail(ldm_loads(c, RegSeq(op.list \ {15}), c.reg[op.rn], mem, 1),
                                   op, mem, e.val)
                ELSE ldmia_tail(ldm_loads(c, RegSeq(op.list), c.reg[op.rn], mem, 1),
                                op, e.val))

(***************************************************************************)
(* Thumb load/store and branch handlers (back/src/interp/thumb).           *)
(***************************************************************************)
\* load_imm with Width::Word, and ldr_imm around it
thumb_ldr_imm(c, op, mem, oc) ==
    Bind(read32(mem, c.reg[op.rn] + op.imm * 4, 1),
         LAMBDA r : IF ~r.ok THEN Res(c, "Panic", TRUE)
                    ELSE Res([c EXCEPT !.reg[op.rt] = r.val], "RetireOk", FALSE))

\* store_imm with Width::Word, and str_imm around it
thumb_str_imm(c, op, mem, oc) ==
    Res(c, "RetireOk", ~write32(mem, c.reg[op.rn] + op.imm * 4))

\* store_reg with Width::Word, and str_reg around it
thumb_str_reg(c, op, mem, oc) ==
    Res(c, "RetireOk", ~write32(mem, c.reg[op.rn] + c.reg[op.rm]))

\* The write32 calls of a store-multiple loop: did any of n word writes from
\* start on fail?
AnyWriteFails(mem, start, n) ==
    \E k \in 0..(n - 1) : ~write32(mem, start + 4 * k)

\* stm
thumb_stm(c, op, mem, oc) ==
    Bind(u32_add(c.reg[op.rn], 4 * Cardinality(op.list)),
         LAMBDA e : IF e.of /\ oc THEN Res(c, "Panic", FALSE)
                    ELSE Res([c EXCEPT !.reg[op.rn] = e.val], "RetireOk",
                             AnyWriteFails(mem, c.reg[op.rn], Cardinality(op.list))))

\* push: the register count, LR included
push_num_regs(op) == Cardinality(op.list) + (IF op.m THEN 1 ELSE 0)

\* push
thumb_push(c, op, mem, oc) ==
    Bind(u32_sub(c.reg[13], 4 * push_num_regs(op)),
         LAMBDA s : IF (s.of \/ u32_sub(c.reg[13], 4).of) /\ oc THEN Res(c, "Panic", FALSE)
                    ELSE Res([c EXCEPT !.reg[13] = s.val], "RetireOk",
                             AnyWriteFails(mem, s.val, push_num_regs(op))))

\* pop, the loop over the register list: [cpu, ok, addr, k]
RECURSIVE pop_loads(_, _, _, _, _)
pop_loads(c, regs, addr, mem, k) ==
    IF regs = <<>> THEN [cpu |-> c, ok |-> TRUE, addr |-> addr, k |-> k]
    ELSE IF ~read32(mem, addr, k).ok THEN [cpu |-> c, ok |-> FALSE, addr |-> addr, k |-> k]
    ELSE pop_loads([c EXCEPT !.reg[Head(regs)] = read32(mem, addr, k).val],
                   Tail(regs), addr + 4, mem, k + 1)

\* pop, after the loop
pop_tail(l, op, mem, e) ==
    IF ~l.ok THEN Res(l.cpu, "FatalErr", TRUE)
    ELSE IF ~op.p THEN Res([l.cpu EXCEPT !.reg[13] = e], "RetireOk", FALSE)
    ELSE IF ~read32(mem, l.addr, l.k).ok
    THEN Res([l.cpu EXCEPT !.reg[13] = e], "FatalErr", TRUE)
    ELSE Res(write_exec_pc(set_thumb([l.cpu EXCEPT !.reg[13] = e],
                                     read32(mem, l.addr, l.k).val % 2 # 0),
                           ClearBit0(read32(mem, l.addr, l.k).val)),
             "RetireBranch", FALSE)

\* pop
thumb_pop(c, op, mem, oc) ==
    Bind(u32_add(c.reg[13], 4 * (Cardinality(op.list) + (IF op.p THEN 1 ELSE 0))),
         LAMBDA e : IF e.of /\ oc THEN Res(c, "Panic", FALSE)
                    ELSE pop_tail(pop_loads(c, RegSeq(op.list), c.reg[13], mem, 1),
                                  op, mem, e.val))

\* bx, the branch target
bx_dest_pc(c, op) ==
    IF op.rm = 15
    THEN IF read_exec_pc(c) % 4 # 0 THEN ClearBits10(read_exec_pc(c)) ELSE read_exec_pc(c)
    ELSE c.reg[op.rm]

\* bx
thumb_bx(c, op, mem, oc) ==
    Res(write_exec_pc(set_thumb(c, bx_dest_pc(c, op) % 2 # 0), ClearBit0(bx_dest_pc(c, op))),
        "RetireBranch", FALSE)

\* blx_reg
thumb_blx_reg(c, op, mem, oc) ==
    IF op.rm = 15 THEN Res(c, "Panic", FALSE)
    ELSE Res(write_exec_pc([set_thumb(c, c.reg[op.rm] % 2 # 0)
                               EXCEPT !.reg[14] = SetBit0(c.pc + 2)],
                           ClearBit0(c.reg[op.rm])),
             "RetireBranch", FALSE)

\* sign_extend(x, bits) for 0 <= x < 2^bits: x | (!0 << bits) when bit
\* bits-1 of x is set, x otherwise.
sign_extend_Unsigned(x, bits) == x
sign_extend(x, bits) ==
    IF (x \div (2 ^ (bits - 1))) % 2 # 0 THEN x - 2 ^ bits ELSE x

\* bl_prefix
thumb_bl_prefix(c, op, mem, oc) ==
    Res([c EXCEPT !.scratch = read_exec_pc(c) + sign_extend(op.imm11 * 4096, 23),
                  !.bl = [set |-> TRUE, at |-> c.pc, imm |-> op.imm11, intr |-> FALSE]],
        "RetireOk", FALSE)

\* bl_imm_suffix
thumb_bl_imm_suffix(c, op, mem, oc) ==
    Res(write_exec_pc([c EXCEPT !.reg[14] = SetBit0(c.pc + 2)], c.scratch + op.imm11 * 2),
        "RetireBranch", FALSE)

\* bkpt (thumb/misc.rs): 0xff stops the emulation, 0xfb..0xfe are debug
\* commands, every other immediate is stored in the scratch field.
thumb_bkpt(c, op, mem, oc) ==
    IF op.imm8 = 255 THEN Res(c, "FatalErr", FALSE)
    ELSE IF op.imm8 \in 251..254 THEN Res(c, "RetireOk", FALSE)
    ELSE Res([c EXCEPT !.scratch = op.imm8], "Breakpoint", FALSE)

(***************************************************************************)
(* SVC (back/src/interp/thumb/misc.rs, back/src/interp.rs 338-365).  A     *)
(* Thumb SVC is the halfword 0xdf00 | imm8; an ARM SVC is carried as its   *)
(* top byte (condition and opcode bits) and its low 24 bits.               *)
(***************************************************************************)
ThumbSvcBase == 57088
ThumbSvcAB == 57259
ArmSvcAB == 171

\* svc: both encodings hand back Exception(Swi)
thumb_svc(c, op, mem, oc) == Res(c, "Exception", FALSE)
arm_svc(c, op, mem, oc) == Res(c, "Exception", FALSE)

\* cpu_step: the opcode is read again and compared; `opcd & 0x00ff_ffff`
\* keeps the low 24 bits of the ARM encoding.
is_semihosting_Never(c, op) == FALSE
is_semihosting(c, op) ==
    IF c.thumb THEN ThumbSvcBase + op.imm8 = ThumbSvcAB
    ELSE op.lo24 = ArmSvcAB

\* cpu_step: what a dispatch result does to the CPU, and the CpuRes
step_result(c, op, r) ==
    CASE r.res = "RetireOk" -> [cpu |-> increment_pc(r.cpu), step |-> "StepOk"]
      [] r.res = "RetireBranch" -> [cpu |-> r.cpu, step |-> "StepOk"]
      [] r.res = "Breakpoint" -> [cpu |-> increment_pc(r.cpu), step |-> "StepOk"]
      [] r.res = "Exception" ->
            IF is_semihosting(r.cpu, op)
            THEN [cpu |-> increment_pc(r.cpu), step |-> "Semihosting"]
            ELSE [cpu |-> generate_exception_swi(r.cpu), step |-> "StepException"]
      [] r.res = "FatalErr" -> [cpu |-> r.cpu, step |-> "HaltEmulation"]
      [] OTHER -> [cpu |-> r.cpu, step |-> "Panic"]

(***************************************************************************)
(* BigEndianMemory with write tracking (mem.rs).  A memory is its bytes,   *)
(* data, and its write log, writes: an interval map from a half-open range *)
(* start..end to the bytes recorded for that range.  written and calls are *)
(* history: the offsets written since tracking began, and the number of    *)
(* calls made.                                                             *)
(***************************************************************************)
\* BigEndianMemory::new(len, None, true): zeroed bytes and an empty log.
BigEndianMemoryNew ==
    [data |-> [i \in 1..MemLen |-> 0], writes |-> {}, written |-> {}, calls |-> 0]

\* An entry of the interval map.
MemRange(start, end, data) == [start |-> start, end |-> end, data |-> data]

\* IntervalMap::iter(start..end): the entries whose range intersects the query.
overlapping(writes, start, end) ==
    {w \in writes : w.start < end /\ start < w.end}

\* IntervalMap::has_overlap
has_overlap(writes, start, end) == overlapping(writes, start, end) # {}

\* iter(query).next(): the map yields its entries in ascending order of range.
first_overlap(writes, start, end) ==
    CHOOSE w \in overlapping(writes, start, end) :
        \A x \in overlapping(writes, start, end) :
            w.start < x.start \/ (w.start = x.start /\ w.end <= x.end)

\* IntervalMap::insert: an entry with the same range is replaced.
interval_insert(writes, r) ==
    {w \in writes : ~(w.start = r.start /\ w.end = r.end)} \cup {r}

\* dst[at..at + src.len()].copy_from_slice(src)
copy_from_slice(dst, at, src) ==
    [i \in 1..Len(dst) |-> IF i > at /\ i <= at + Len(src) THEN src[i - at] ELSE dst[i]]

\* min(found_range.start, off)..max(found_range.end, off + data.len())
new_range(found, off, data) ==
    [start |-> IF found.start < off THEN found.start ELSE off,
     end |-> IF found.end > off + Len(data) THEN found.end ELSE off + Len(data)]

\* handle_write_tracking, "grow right": the old bytes at the front of a zeroed
\* vector of the new length, then the written bytes at their offset.
grow_right(found, off, data, nr) ==
    MemRange(nr.start, nr.end,
             copy_from_slice(copy_from_slice([i \in 1..(nr.end - nr.start) |-> 0], 0, found.data),
                             off - found.start, data))

\* handle_write_tracking with an overlapping entry found: [writes, panic].
\* In the "grow left" branch new_range.start is off and lies below
\* found_range.start, so the usize index new_range.start - found_range.start
\* is negative: a build with overflow checks panics at the subtraction, a
\* build without them wraps it to a value beyond found_range.len() and panics
\* at the slice.
track_overlap(writes, found, off, data, nr) ==
    IF found.start = nr.start /\ found.end = nr.end
    THEN [writes |-> (writes \ {found})
                     \cup {[found EXCEPT !.data = copy_from_slice(@, off - found.start, data)]},
          panic |-> FALSE]
    ELSE IF found.start = nr.start
    THEN [writes |-> interval_insert(writes \ {found}, grow_right(found, off, data, nr)),
          panic |-> FALSE]
    ELSE [writes |-> writes \ {found}, panic |-> nr.start - found.start < 0]

\* BigEndianMemory::handle_write_tracking: [writes, panic].
handle_write_tracking(writes, off, data) ==
    IF has_overlap(writes, off, off + Len(data))
    THEN track_overlap(writes, first_overlap(writes, off, off + Len(data)), off, data,
                       new_range(first_overlap(writes, off, off + Len(data)), off, data))
    ELSE [writes |-> interval_insert(writes, MemRange(off, off + Len(data), data)),
          panic |-> FALSE]

\* BigEndianMemory::write_buf: [mem, res]; the log is updated before the copy.
write_buf(m, off, src) ==
    IF off + Len(src) > Len(m.data)
    THEN [mem |-> m, res |-> "Err"]
    ELSE Bind(handle_write_tracking(m.writes, off, src),
         LAMBDA t :
            IF t.panic
            THEN [mem |-> [m EXCEPT !.writes = t.writes], res |-> "Panic"]
            ELSE [mem |-> [m EXCEPT !.data = copy_from_slice(@, off, src),
                                    !.writes = t.writes,
                                    !.written = @ \cup {off + i - 1 : i \in 1..Len(src)}],
                  res |-> "Ok"])

\* val.to_be(): the bytes of a width-byte value, most significant first.
to_be_bytes(val, width) ==
    [i \in 1..width |-> (val \div (256 ^ (width - i))) % 256]

\* BigEndianMemory::write::<T>: the bounds check, the log and the copy of
\* write_buf on the big-endian bytes of val.
mem_write(m, off, val, width) == write_buf(m, off, to_be_bytes(val, width))

\* BigEndianMemory::memset
memset(m, off, len, val) == write_buf(m, off, [i \in 1..len |-> val])

vars == <<bus, cpu, emu, ppc, last>>

NoInsn == [kind |-> "none", left |-> 0]

EmuNew == [cpu_cycle |-> 0, bus_cycle |-> 0, phase |-> "bus", insn |-> NoInsn,
           status |-> "running", overflow_checks |-> FALSE,
           mem |-> BigEndianMemoryNew]

PpcNew == [pc |-> "start", wait |-> "ack", reqs |-> 0]

NoLast == [op |-> "init", dev |-> "", off |-> 0, val |-> {}, irq |-> IrqInterfaceDefault,
           tasks |-> <<>>, timer |-> TimerInterfaceDefault, cpu |-> CpuNew, cycle |-> 0,
           insn |-> "", res |-> "", failed |-> FALSE,
           opc |-> <<>>, loads |-> <<>>, stored |-> <<>>, step |-> "",
           sd0 |-> SDInterfaceDefault(FALSE), gpio |-> GpioInterfaceNew, htask |-> <<>>,
           sha |-> ShaInterfaceNew]

\* The state after construction; the SD card image may or may not exist, and
\* the build may or may not check integer overflow.
Init ==
    /\ \E card_available \in BOOLEAN : bus = BusNew(card_available)
    /\ cpu = CpuNew
    /\ \E overflow_checks \in BOOLEAN : emu = [EmuNew EXCEPT !.overflow_checks = overflow_checks]
    /\ ppc = PpcNew
    /\ last = NoLast

(***************************************************************************)
(* Inputs: the register writes software performs.                          *)
(***************************************************************************)
W(dev, off, val) == [dev |-> dev, off |-> off, val |-> val]

\* Writes to the IRQ block (Hollywood 0x30..0x5c) and the mailbox control.
IrqWrites ==
    { W("Hlwd", 48 + off, val) : off \in {0, 4, 8, 12}, val \in {{30}, {30, 31}} }
    \cup { W("Hlwd", 12, {0, 3}), W("Hlwd", 404, {3, 4, 5}) }

\* Writes that make the bus schedule tasks.
TaskWrites ==
    { W("Hlwd", 396, {12}), W("Hlwd", 396, {}), W("Hlwd", 96, {5}),
      W("Sdhc0", 52, {0, 5}), W("Sdhc0", 56, {0, 5}), W("Sdhc0", 4, {16}),
      W("Sdhc0", 12, {25, 28}), W("Sdhc0", 48, {0}) }

\* Writes of an SD host driver: the interrupt enables, a software reset, the
\* block count, a multi-block read or write command with DMA and a read
\* without, the acknowledgement of Command-Complete, and two new DMA system
\* addresses.
SdhcWrites ==
    { W("Sdhc0", 52, {0}), W("Sdhc0", 52, {0, 1, 3, 6}), W("Sdhc0", 56, {0, 1, 3, 6}),
      W("Sdhc0", 44, {24}), W("Sdhc0", 4, {16}), W("Sdhc0", 4, {19}),
      W("Sdhc0", 12, {0, 25, 28}), W("Sdhc0", 12, {0, 24, 27, 28}), W("Sdhc0", 12, {25, 28}),
      W("Sdhc0", 48, {0}), W("Sdhc0", 0, {12}), W("Sdhc0", 0, {24}) }

\* Writes of the card initialisation: CMD0, CMD2, CMD3, CMD7, ACMD41 and
\* CMD55 in the Command register, two relative card addresses in the
\* Argument register (0x4322 and 1), and a software reset.
CardWrites ==
    { W("Sdhc0", 12, {}), W("Sdhc0", 12, {25}), W("Sdhc0", 12, {24, 25}),
      W("Sdhc0", 12, {24, 25, 26}), W("Sdhc0", 12, {24, 27, 29}),
      W("Sdhc0", 12, {24, 25, 26, 28, 29}),
      W("Sdhc0", 8, {17, 21, 24, 25, 30}), W("Sdhc0", 8, {16}), W("Sdhc0", 44, {24}) }

\* The bit string of the low n bits of v, most significant first.
Bits(v, n) == [i \in 1..n |-> IF (n - i) \in v THEN 1 ELSE 0]

\* The commands the guest clocks into the SEEPROM: EWEN, EWDS, WRAL, a start
\* bit of 0, a READ of word 5 clocked once past its 16th data bit, a READ of
\* word 128, and a WRITE of 0x8009 to word 5.
SeepromCmds ==
    { <<1, 0, 0, 1, 1>>, <<1, 0, 0, 0, 0>>, <<1, 0, 0, 0, 1>>, <<0>>,
      <<1, 1, 0>> \o Bits({0, 2}, 8) \o Bits({}, 17),
      <<1, 1, 0>> \o Bits({7}, 8),
      <<1, 0, 1>> \o Bits({0, 2}, 8) \o Bits({0, 3, 15}, 16) }

\* The guest clocks in only bits of these commands: a value that is a rising
\* clock edge with CS asserted carries the next bit of one of them.
GuestSends(val) ==
    (val \cap SeepromCs) # {} /\ clk_rise(bus.hlwd.gpio.arm.output, val)
    => \E c \in SeepromCmds :
          /\ Len(c) > bus.hlwd.gpio.seeprom.num_bits
          /\ bus.hlwd.gpio.seeprom.in_buf =
                {bus.hlwd.gpio.seeprom.num_bits - i : i \in {j \in 1..bus.hlwd.gpio.seeprom.num_bits : c[j] = 1}}
          /\ c[bus.hlwd.gpio.seeprom.num_bits + 1] = (IF (val \cap SeepromMosi) # {} THEN 1 ELSE 0)

\* Writes of a SEEPROM driver to the ARM GPIO block.  The first word an
\* instruction stores goes to the output register: CS, clock and MOSI
\* driven, everything released, a debug pin or the power pin alone, and
\* never the value the register already holds.  A store-multiple writes its
\* second word to the next register, the direction register.
GpioVals == { {}, {10}, {10, 11}, {10, 11, 12}, {16}, {0} }
GpioWrites ==
    IF last.op = "mmio_write"
    THEN { W("Hlwd", 228, {}) }
    ELSE { W("Hlwd", 224, val) :
             val \in {v \in GpioVals : v # bus.hlwd.gpio.arm.output /\ GuestSends(v)} }

\* Writes of a SHA driver: the ARM interrupt enable of the engine, a source
\* address at the start of MEM1, one 128 bytes and one 64 bytes before its
\* end, and commands for one block, for two blocks with the interrupt
\* requested, and one without the start bit.
ShaWrites ==
    { W("Hlwd", 60, IrqSha),
      W("Sha", 4, {}), W("Sha", 4, BitsOf(Mem1Size - 128)), W("Sha", 4, BitsOf(Mem1Size - 64)),
      W("Sha", 0, {31}), W("Sha", 0, {0, 30, 31}), W("Sha", 0, {0, 30}) }

\* Writes the timer specification performs.
TimerWrites ==
    { W("Hlwd", 20, {0}), W("Hlwd", 20, {1}), W("Hlwd", 60, IrqTimer), W("Hlwd", 56, IrqTimer) }

\* Writes to SPARE1, SRNPROT and SPARE0.
RomWrites ==
    { W("Hlwd", 396, {12}), W("Hlwd", 396, {}), W("Hlwd", 96, {5}), W("Hlwd", 96, {}),
      W("Hlwd", 392, {}) }

(***************************************************************************)
(* The interpreter thread (InterpBackend::run, interp.rs 421-462).         *)
(***************************************************************************)
Running == emu.status = "running"

\* run: the bus step under the write lock, then the IRQ line is sampled.
BusStep(MaxC) ==
    /\ Running /\ emu.phase = "bus" /\ emu.cpu_cycle <= MaxC
    /\ \E b \in {bus_step(bus, emu.cpu_cycle)} :
          /\ bus' = b
          /\ IF b.fault = "none"
             THEN /\ emu' = [emu EXCEPT !.bus_cycle = @ + 1, !.phase = "cpu"]
                  /\ cpu' = [cpu EXCEPT !.irq_input = b.hlwd.irq.arm_irq_output]
             ELSE /\ emu' = [emu EXCEPT !.status = IF b.fault = "panic" THEN "panicked"
                                                  ELSE "halted"]
                  /\ cpu' = cpu
    /\ last' = [NoLast EXCEPT !.op = "bus_step", !.irq = bus.hlwd.irq, !.tasks = bus.tasks,
                              !.timer = bus.hlwd.timer, !.cycle = emu.cpu_cycle,
                              !.sd0 = bus.sd0,
                              !.gpio = bus.hlwd.gpio, !.htask = bus.hlwd.task,
                              !.sha = bus.sha]
    /\ UNCHANGED ppc

\* cpu_step up to the dispatch: the alignment assertion, the IRQ sample and
\* the choice of the instruction at the fetch PC.  An instruction that
\* writes the CPSR mask (to a value in Masks) retires here; a store-multiple
\* goes on to its bus writes.
CpuStepTop(Masks) ==
    /\ Running /\ emu.phase = "cpu"
    /\ last' = [NoLast EXCEPT !.op = "cpu_top", !.cpu = cpu]
    /\ UNCHANGED <<bus, ppc>>
    /\ IF cpu.pc % 2 # 0
       THEN /\ emu' = [emu EXCEPT !.status = "panicked"]
            /\ cpu' = cpu
       ELSE \E c \in {sample_irq([cpu EXCEPT !.taken = "None"])} :
               \/ \E n \in 1..MaxAccess :
                    /\ emu' = [emu EXCEPT !.phase = "exec", !.insn = [kind |-> "stm", left |-> n]]
                    /\ cpu' = c
               \/ \E mask \in Masks :
                    /\ cpu' = increment_pc([c EXCEPT !.irq_disable = mask])
                    /\ emu' = [emu EXCEPT !.phase = "bus", !.cpu_cycle = @ + 1]

\* One write32 of the ARM stm handler (arm/loadstore.rs 407-433) reaching a
\* device register; after the last one the instruction retires.
CpuStore(Inputs) ==
    /\ Running /\ emu.phase = "exec" /\ emu.insn.kind = "stm" /\ emu.insn.left > 0
    /\ \E w \in Inputs :
       \E b \in {do_mmio_write([bus EXCEPT !.fault = "none",
                                              !.who = [by |-> "cpu", step |-> emu.cpu_cycle]],
                                 w.dev, w.off, w.val)} :
            /\ bus' = b
            /\ last' = [NoLast EXCEPT !.op = "mmio_write", !.dev = w.dev, !.off = w.off,
                                      !.val = w.val, !.irq = bus.hlwd.irq, !.tasks = bus.tasks,
                                      !.cycle = emu.cpu_cycle, !.sd0 = bus.sd0,
                              !.gpio = bus.hlwd.gpio, !.htask = bus.hlwd.task,
                              !.sha = bus.sha]
            /\ IF b.fault = "panic"
               THEN emu' = [emu EXCEPT !.status = "panicked"] /\ cpu' = cpu
               ELSE IF b.fault = "err"
               THEN emu' = [emu EXCEPT !.status = "halted"] /\ cpu' = cpu
               ELSE IF emu.insn.left > 1
               THEN emu' = [emu EXCEPT !.insn.left = @ - 1] /\ cpu' = cpu
               ELSE /\ emu' = [emu EXCEPT !.insn = NoInsn, !.phase = "bus", !.cpu_cycle = @ + 1]
                    /\ cpu' = increment_pc(cpu)
    /\ UNCHANGED ppc

\* run with a custom kernel: before the loop starts, the boot ROM mapping is
\* disabled and the SRAM mirror enabled, and the segments of the ELF file
\* are written to memory.
LoadKernel ==
    /\ Running /\ last.op = "init" /\ emu.phase = "bus" /\ emu.cpu_cycle = 0
    /\ bus' = [bus EXCEPT !.rom_disabled = TRUE, !.mirror_enabled = TRUE]
    /\ last' = [NoLast EXCEPT !.op = "load_kernel"]
    /\ UNCHANGED <<cpu, emu, ppc>>

(***************************************************************************)
(* The PPC bridge thread (back/src/ppc.rs).                                *)
(***************************************************************************)
PpcWrites == { W("Hlwd", 52, {30}), W("Hlwd", 48, {30}) }

\* run: ppc_ctrl_write(0x36) under the write lock.
PpcStart ==
    /\ ppc.pc = "start"
    /\ bus' = [bus EXCEPT !.hlwd.ipc = ppc_ctrl_write(@, {1, 2, 4, 5})]
    /\ ppc' = [ppc EXCEPT !.pc = "wait_on"]
    /\ last' = [NoLast EXCEPT !.op = "ppc_start"]
    /\ UNCHANGED <<cpu, emu>>

\* run: the poll for ppc_on.
PpcWaitOn ==
    /\ ppc.pc = "wait_on" /\ bus.hlwd.ppc_on
    /\ ppc' = [ppc EXCEPT !.pc = "poll", !.wait = "ack"]
    /\ last' = [NoLast EXCEPT !.op = "ppc_on"]
    /\ UNCHANGED <<bus, cpu, emu>>

\* wait_for_resp / wait_for_ack: the read-locked test of ppc_irq_output.
PpcPoll ==
    /\ ppc.pc = "poll" /\ bus.hlwd.irq.ppc_irq_output
    /\ ppc' = [ppc EXCEPT !.pc = "locked"]
    /\ last' = [NoLast EXCEPT !.op = "ppc_poll"]
    /\ UNCHANGED <<bus, cpu, emu>>

\* wait_for_resp / wait_for_ack: the interrupt handled under the write lock.
\* After the ACK that wait_for_ack was waiting for, run sets arm_ack and
\* enters the server loop.
PpcTakeIrq ==
    /\ ppc.pc = "locked"
    /\ last' = [NoLast EXCEPT !.op = "ppc_irq", !.irq = bus.hlwd.irq]
    /\ UNCHANGED <<cpu, emu>>
    /\ LET Clear(b) == [b EXCEPT !.hlwd.irq =
                           update_irq_lines([@ EXCEPT !.ppc_irq_status = @ \ IrqPpcIpc])]
       IN IF bus.hlwd.ipc.ppc_ack
          THEN /\ bus' = Clear([bus EXCEPT !.hlwd.ipc.ppc_ack = FALSE])
               /\ ppc' = [ppc EXCEPT !.pc = IF ppc.wait = "ack" THEN "acked" ELSE "poll"]
          ELSE IF bus.hlwd.ipc.ppc_req
          THEN /\ bus' = Clear([bus EXCEPT !.hlwd.ipc.ppc_req = FALSE,
                                           !.hlwd.ipc.arm_ack = TRUE])
               /\ ppc' = [ppc EXCEPT !.pc = IF ppc.wait = "ack" THEN "poll" ELSE "server"]
          ELSE /\ bus' = bus
               /\ ppc' = [ppc EXCEPT !.pc = "dead"]

\* run: the extra ACK sent before the server loop.
PpcExtraAck ==
    /\ ppc.pc = "acked"
    /\ bus' = [bus EXCEPT !.hlwd.ipc.arm_ack = TRUE]
    /\ ppc' = [ppc EXCEPT !.pc = "server"]
    /\ last' = [NoLast EXCEPT !.op = "ppc_extra_ack"]
    /\ UNCHANGED <<cpu, emu>>

\* server_loop, Command::PPCWrite32: handle_write32 writes a word through
\* the bus under the write lock; an Err ends the thread.
PpcWrite32 ==
    /\ ppc.pc = "server" /\ ppc.reqs < MaxPpcReq
    /\ \E w \in PpcWrites :
       \E b \in {do_mmio_write([bus EXCEPT !.fault = "none",
                                              !.who = [by |-> "ppc", step |-> emu.cpu_cycle]],
                                 w.dev, w.off, w.val)} :
            /\ bus' = b
            /\ ppc' = [ppc EXCEPT !.reqs = @ + 1,
                                  !.pc = IF b.fault = "none" THEN "server" ELSE "dead"]
            /\ last' = [NoLast EXCEPT !.op = "mmio_write", !.dev = w.dev, !.off = w.off,
                                      !.val = w.val, !.irq = bus.hlwd.irq, !.tasks = bus.tasks,
                                      !.cycle = emu.cpu_cycle, !.sd0 = bus.sd0,
                              !.gpio = bus.hlwd.gpio, !.htask = bus.hlwd.task,
                              !.sha = bus.sha]
    /\ UNCHANGED <<cpu, emu>>

\* server_loop, Command::Message: handle_message, then wait_for_resp.
PpcMessage ==
    /\ ppc.pc = "server" /\ ppc.reqs < MaxPpcReq
    /\ bus' = [bus EXCEPT !.hlwd.ipc.arm_req = TRUE, !.hlwd.ipc.arm_ack = TRUE]
    /\ ppc' = [ppc EXCEPT !.reqs = @ + 1, !.pc = "poll", !.wait = "resp"]
    /\ last' = [NoLast EXCEPT !.op = "ppc_message"]
    /\ UNCHANGED <<cpu, emu>>

(***************************************************************************)
(* The bus specification: the run loop storing to device registers, with   *)
(* the PPC bridge running beside it.                                       *)
(***************************************************************************)
NextBus ==
    \/ BusStep(MaxCycle)
    \/ CpuStepTop(BOOLEAN)
    \/ CpuStore(IrqWrites)
    \/ PpcStart
    \/ PpcWaitOn
    \/ PpcPoll
    \/ PpcTakeIrq
    \/ PpcExtraAck
    \/ PpcWrite32
    \/ PpcMessage

SpecBus == Init /\ [][NextBus]_vars

(***************************************************************************)
(* The task-queue specification: the run loop storing to the registers     *)
(* whose writes schedule bus tasks.                                        *)
(***************************************************************************)
NextTasks ==
    \/ BusStep(MaxTaskCycle)
    \/ CpuStepTop(BOOLEAN)
    \/ CpuStore(TaskWrites)

SpecTasks == Init /\ [][NextTasks]_vars

(***************************************************************************)
(* The SD host controller specification: the run loop, with interrupts     *)
(* masked in the CPSR, storing to the SDHC registers as a host driver does.*)
(***************************************************************************)
NextSdhc ==
    \/ BusStep(MaxSdhcCycle)
    \/ CpuStepTop({TRUE})
    \/ CpuStore(SdhcWrites)

SpecSdhc == Init /\ [][NextSdhc]_vars

(***************************************************************************)
(* The GPIO specification: the run loop bit-banging the SEEPROM through    *)
(* the ARM GPIO output register.                                           *)
(***************************************************************************)
NextGpio ==
    \/ BusStep(MaxGpioCycle)
    \/ CpuStepTop({})
    \/ CpuStore(GpioWrites)

SpecGpio == Init /\ [][NextGpio]_vars

(***************************************************************************)
(* The SHA specification: the run loop, with interrupts masked in the      *)
(* CPSR, programming the SHA-1 engine.                                     *)
(***************************************************************************)
NextSha ==
    \/ BusStep(MaxShaCycle)
    \/ CpuStepTop({TRUE})
    \/ CpuStore(ShaWrites)

SpecSha == Init /\ [][NextSha]_vars

(***************************************************************************)
(* The digest specification: the run loop, with interrupts masked in the   *)
(* CPSR, hashing the messages in MEM1.  Before its first command the       *)
(* driver may load the digest registers with the SHA-1 initial hash value, *)
(* word by word in order, and may point the source register at the second  *)
(* message; it starts commands for one block and for two, each when the    *)
(* engine has cleared the start bit of the one before, up to three blocks. *)
(***************************************************************************)
Sha1InitialValue ==
    <<U32Word(26437, 8961), U32Word(61389, 43913), U32Word(39098, 56574),
      U32Word(4146, 21622), U32Word(50130, 57840)>>

\* No command has been written yet.
ShaNotStarted == bus.sha.state.input = <<>> /\ 31 \notin bus.sha.ctrl

DigestWrites ==
    { W("Sha", 4 + (4 * i), Sha1InitialValue[i]) :
        i \in {j \in 1..5 : /\ ShaNotStarted
                             /\ bus.sha.state.digest[j] = {}
                             /\ \A k \in 1..(j - 1) :
                                   bus.sha.state.digest[k] = Sha1InitialValue[k]} }
    \cup { W("Sha", 4, {6}) : x \in {y \in {0} : ShaNotStarted /\ bus.sha.src = {}} }
    \cup { W("Sha", 0, v) :
             v \in {c \in {{31}, {0, 31}} : /\ 31 \notin bus.sha.ctrl
                                             /\ Len(bus.sha.state.input) < 128} }

NextDigest ==
    \/ BusStep(MaxDigestCycle)
    \/ CpuStepTop({TRUE})
    \/ CpuStore(DigestWrites)

SpecDigest == Init /\ [][NextDigest]_vars

(***************************************************************************)
(* The ROM mapping specification: the run loop, started with or without a  *)
(* custom kernel, storing to SPARE1, SRNPROT and SPARE0.                   *)
(***************************************************************************)
NextRom ==
    \/ LoadKernel
    \/ BusStep(MaxRomCycle)
    \/ CpuStepTop({TRUE})
    \/ CpuStore(RomWrites)

SpecRom == Init /\ [][NextRom]_vars

(***************************************************************************)
(* The SD card specification: the run loop issuing the commands of the     *)
(* card initialisation through the Command register.                       *)
(***************************************************************************)
NextCard ==
    \/ BusStep(MaxCardCycle)
    \/ CpuStepTop({TRUE})
    \/ CpuStore(CardWrites)

SpecCard == Init /\ [][NextCard]_vars

(***************************************************************************)
(* The timer specification: the run loop left running long enough for the  *)
(* Hollywood timer to tick, with software programming the alarm and the    *)
(* timer interrupt and keeping interrupts masked in the CPSR.              *)
(***************************************************************************)
NextTimer ==
    \/ BusStep(MaxTimerCycle)
    \/ CpuStepTop({TRUE})
    \/ CpuStore(TimerWrites)

SpecTimer == Init /\ [][NextTimer]_vars

(***************************************************************************)
(* The CPU step with an instruction handler (interp.rs 278-374).           *)
(***************************************************************************)
\* The words a step loads: none, one, or two.
NoLoad == { <<0, 0>> }
OneLoad == { <<v, 0>> : v \in Val }
TwoLoads == Val \X Val

\* cpu_step, the assertion at its top failing.
CpuStepAssert ==
    /\ Running /\ emu.phase = "cpu" /\ cpu.pc % 2 # 0
    /\ emu' = [emu EXCEPT !.status = "panicked"]
    /\ last' = [NoLast EXCEPT !.op = "cpu_assert"]
    /\ UNCHANGED <<bus, cpu, ppc>>

\* cpu_step, the opcode fetch failing: HaltEmulation.
CpuFetchFault ==
    /\ Running /\ emu.phase = "cpu" /\ cpu.pc % 2 = 0
    /\ \E c \in {sample_irq([cpu EXCEPT !.taken = "None"])}, hi \in BOOLEAN :
         /\ ~Mapped(c.pc, hi)
         /\ cpu' = c
    /\ emu' = [emu EXCEPT !.status = "halted"]
    /\ last' = [NoLast EXCEPT !.op = "cpu_fetch"]
    /\ UNCHANGED <<bus, ppc>>

\* cpu_step for an opcode the table of the current state (ARM or Thumb)
\* dispatches to `handler`; then run's reaction to the step result.
InsnStep(kind, thumb, Ops, Vs, handler(_, _, _, _)) ==
    /\ Running /\ emu.phase = "cpu" /\ cpu.pc % 2 = 0
    /\ UNCHANGED <<bus, ppc>>
    /\ \E c \in {sample_irq([cpu EXCEPT !.taken = "None"])} :
       \E op \in Ops, mem \in [hi : BOOLEAN, v : Vs] :
         /\ c.thumb = thumb
         /\ Mapped(c.pc, mem.hi)
         /\ \E r \in {handler(c, op, mem, emu.overflow_checks)} :
            \E t \in {step_result(c, op, r)} :
              /\ last' = [NoLast EXCEPT !.op = "cpu_step", !.insn = kind, !.res = r.res,
                                        !.failed = r.failed, !.cpu = c, !.opc = op,
                                        !.loads = mem.v, !.stored = r.stored,
                                        !.step = t.step]
              /\ cpu' = t.cpu
              /\ emu' = CASE t.step = "Panic" -> [emu EXCEPT !.status = "panicked"]
                          [] t.step = "HaltEmulation" -> [emu EXCEPT !.status = "halted"]
                          [] OTHER -> [emu EXCEPT !.phase = "bus", !.cpu_cycle = @ + 1]

\* ldr rt, [rn, #4] / ldr rt, [rn], #4 (unsupported form) / ldr r0, [pc, #4]
ArmLdrImm ==
    /\ InsnStep("arm_ldr_imm", FALSE,
                { [rn |-> rn, rt |-> rt, imm |-> 4, u |-> TRUE, p |-> ~w, w |-> w] :
                    rn \in {0, 13}, rt \in {0, 15}, w \in BOOLEAN }
                \cup { [rn |-> 15, rt |-> 0, imm |-> 4, u |-> TRUE, p |-> TRUE, w |-> FALSE] },
                OneLoad, arm_ldr_imm)

\* ldr rt, [r0, r1]
ArmLdrReg ==
    /\ InsnStep("arm_ldr_reg", FALSE,
                { [rn |-> 0, rm |-> 1, rt |-> rt, u |-> TRUE, p |-> TRUE, w |-> FALSE] :
                    rt \in {13, 15} },
                OneLoad, arm_ldr_reg)

\* str r1, [rn, #4] / str r1, [rn, #-4]!
ArmStrImm ==
    /\ InsnStep("arm_str_imm", FALSE,
                { [rn |-> rn, rt |-> 1, imm |-> 4, u |-> ~w, p |-> TRUE, w |-> w] :
                    rn \in {0, 13}, w \in BOOLEAN },
                NoLoad, arm_str_imm)

\* ldr rt, [rn, #imm5 * 4]
ThumbLdrImm ==
    /\ InsnStep("thumb_ldr_imm", TRUE,
                { [rn |-> rn, rt |-> rt, imm |-> imm] :
                    rn \in {0, 1}, rt \in {0, 1}, imm \in {0, 1} },
                OneLoad, thumb_ldr_imm)

\* str r0, [rn, #imm5 * 4]
ThumbStrImm ==
    /\ InsnStep("thumb_str_imm", TRUE,
                { [rn |-> rn, rt |-> 0, imm |-> imm] : rn \in {0, 1}, imm \in {0, 1} },
                NoLoad, thumb_str_imm)

\* str r0, [r0, r1]
ThumbStrReg ==
    /\ InsnStep("thumb_str_reg", TRUE, { [rn |-> 0, rm |-> 1, rt |-> 0] }, NoLoad, thumb_str_reg)

\* stmia r0!, {r0} / stmia r0!, {r0, r1}
ThumbStm ==
    /\ InsnStep("thumb_stm", TRUE, { [rn |-> 0, list |-> list] : list \in {{0}, {0, 1}} },
                NoLoad, thumb_stm)

\* push {} / push {r0} / push {lr} / push {r0, lr}
ThumbPush ==
    /\ InsnStep("thumb_push", TRUE,
                { [list |-> list, m |-> m] : list \in {{}, {0}}, m \in BOOLEAN },
                NoLoad, thumb_push)

\* pop {} / pop {r0} / pop {pc} / pop {r0, pc}
ThumbPop ==
    /\ InsnStep("thumb_pop", TRUE,
                { [list |-> list, p |-> p] : list \in {{}, {0}}, p \in BOOLEAN },
                TwoLoads, thumb_pop)

\* bx r0 / bx lr / bx pc
ThumbBx ==
    /\ InsnStep("thumb_bx", TRUE, { [rm |-> rm] : rm \in {0, 14, 15} }, NoLoad, thumb_bx)

\* blx r1 / blx pc
ThumbBlxReg ==
    /\ InsnStep("thumb_blx_reg", TRUE, { [rm |-> rm] : rm \in {1, 15} }, NoLoad, thumb_blx_reg)

\* stmia rn, {..}^ / stmdb rn, {..}^
ArmStmUser ==
    /\ InsnStep("arm_stm_user", FALSE,
                { [rn |-> 0, list |-> list, u |-> u, p |-> ~u] :
                    list \in {{1}, {13, 14}}, u \in BOOLEAN }
                \cup { [rn |-> 15, list |-> {1}, u |-> TRUE, p |-> FALSE] },
                NoLoad, arm_stm_user)

\* ldmia rn, {..}^ / ldmdb rn, {..}^ / ldmia rn!, {.., pc}^
ArmLdmUser ==
    /\ InsnStep("arm_ldm_user", FALSE,
                { [rn |-> 0, list |-> list, u |-> u, p |-> ~u, w |-> FALSE] :
                    list \in {{13}, {13, 14}}, u \in BOOLEAN }
                \cup { [rn |-> 0, list |-> list, u |-> TRUE, p |-> FALSE, w |-> w] :
                         list \in {{15}, {1, 15}}, w \in BOOLEAN }
                \cup { [rn |-> 15, list |-> {13}, u |-> TRUE, p |-> FALSE, w |-> FALSE] },
                TwoLoads, arm_ldm_user)

\* stmia rn{!}, {..} with and without pc in the list
ArmStm ==
    /\ InsnStep("arm_stm", FALSE,
                { [rn |-> 0, list |-> list, w |-> w] :
                    list \in {{1}, {15}, {14, 15}}, w \in BOOLEAN }
                \cup { [rn |-> 15, list |-> {1}, w |-> FALSE] },
                NoLoad, arm_stm)

\* stmdb rn{!}, {..} with and without pc in the list
ArmStmdb ==
    /\ InsnStep("arm_stmdb", FALSE,
                { [rn |-> 13, list |-> list, w |-> w] :
                    list \in {{1}, {15}, {14, 15}}, w \in BOOLEAN }
                \cup { [rn |-> 15, list |-> {1}, w |-> FALSE] },
                NoLoad, arm_stmdb)

\* bl (first halfword) with a zero, a positive and two negative offsets
ThumbBlPrefix ==
    /\ InsnStep("thumb_bl_prefix", TRUE, { [imm11 |-> p] : p \in {0, 1, 1024, 2047} },
                NoLoad, thumb_bl_prefix)

\* bl (second halfword)
ThumbBlImmSuffix ==
    /\ InsnStep("thumb_bl_imm_suffix", TRUE, { [imm11 |-> x] : x \in {0, 3, 2047} },
                NoLoad, thumb_bl_imm_suffix)

\* svc #imm8
ThumbSvc ==
    /\ InsnStep("thumb_svc", TRUE, { [imm8 |-> i] : i \in {0, 170, 171, 255} },
                NoLoad, thumb_svc)

\* svc{cond} #imm24: always and eq conditions, immediates around 0xAB
ArmSvc ==
    /\ InsnStep("arm_svc", FALSE,
                { [hi8 |-> h, lo24 |-> i] : h \in {239, 15}, i \in {0, 171, 427, 65707} },
                NoLoad, arm_svc)

\* ldmia rn{!}, {..} with and without pc in the list
ArmLdmia ==
    /\ InsnStep("arm_ldmia", FALSE,
                { [rn |-> rn, list |-> list, w |-> w] :
                    rn \in {0, 13}, list \in {{1}, {15}, {1, 15}}, w \in BOOLEAN }
                \cup { [rn |-> 15, list |-> {1}, w |-> FALSE] },
                TwoLoads, arm_ldmia)

\* ldrh rt, [rn, #2] / ldrh rt, [rn, #-2]! / ldrh rt, [rn], #2 and the
\* unsupported form with P clear and W set
ArmLdrhImm ==
    /\ InsnStep("arm_ldrh_imm", FALSE,
                { [rn |-> rn, rt |-> rt, imm |-> 2, u |-> u, p |-> p, w |-> w] :
                    rn \in {0, 1}, rt \in {0, 1, 15}, u \in BOOLEAN, p \in BOOLEAN,
                    w \in BOOLEAN },
                OneLoad, arm_ldrh_imm)

(***************************************************************************)
(* A guest program with an interrupt handler.  Reset code at 0 turns the   *)
(* PPC on, enables the PPC-side and ARM-side IPC interrupts, signals the   *)
(* PPC, unmasks IRQs and jumps to Thumb code at 64, a BL pair.  The IRQ    *)
(* vector at 24 disables the ARM-side interrupt, jumps to Thumb code at 96 *)
(* that executes a BKPT and goes back to ARM state with bx pc, and returns *)
(* from the exception with ldm {pc}^.                                      *)
(***************************************************************************)
NestStm ==
    (0 :> <<W("Hlwd", 404, {3, 4, 5}), W("Hlwd", 52, {30})>>)
    @@ (4 :> <<W("Hlwd", 12, {0, 3}), W("Hlwd", 60, {31})>>)
    @@ (24 :> <<W("Hlwd", 60, {})>>)
NestMsr == {8}
NestLdr == (12 :> 65) @@ (28 :> 97)
NestPrefix == (64 :> 1)
NestSuffix == (66 :> 3)
NestBkpt == (96 :> 1)
NestBx == (98 :> 15)
NestRet == {100}

\* The CPU after the IRQ sample of the step to come, and the entry of a
\* table for its fetch PC.
NestFetched == sample_irq([cpu EXCEPT !.taken = "None"])
NestAt(tab) == IF NestFetched.pc \in DOMAIN tab THEN {tab[NestFetched.pc]} ELSE {}

\* The stores of the store-multiple in progress still to do: the next one.
NestStores ==
    IF emu.phase = "exec" /\ cpu.pc \in DOMAIN NestStm
    THEN {NestStm[cpu.pc][Len(NestStm[cpu.pc]) - emu.insn.left + 1]}
    ELSE {}

\* cpu_step up to the dispatch, for the program's stm and msr instructions.
NestStepTop ==
    /\ Running /\ emu.phase = "cpu" /\ cpu.pc % 2 = 0
    /\ last' = [NoLast EXCEPT !.op = "cpu_top", !.cpu = cpu]
    /\ UNCHANGED <<bus, ppc>>
    /\ \E c \in {NestFetched} :
         /\ ~c.thumb
         /\ \/ /\ c.pc \in DOMAIN NestStm
               /\ emu' = [emu EXCEPT !.phase = "exec",
                                     !.insn = [kind |-> "stm", left |-> Len(NestStm[c.pc])]]
               /\ cpu' = c
            \/ /\ c.pc \in NestMsr
               /\ cpu' = increment_pc([c EXCEPT !.irq_disable = FALSE])
               /\ emu' = [emu EXCEPT !.phase = "bus", !.cpu_cycle = @ + 1]

\* ldr pc, [pc, #4]
NestLdrPc ==
    /\ InsnStep("arm_ldr_imm", FALSE,
                { [rn |-> 15, rt |-> 15, imm |-> 4, u |-> TRUE, p |-> TRUE, w |-> FALSE] :
                    v \in NestAt(NestLdr) },
                { <<v, 0>> : v \in NestAt(NestLdr) }, arm_ldr_imm)

\* bl (first halfword)
NestBlPrefix ==
    /\ InsnStep("thumb_bl_prefix", TRUE, { [imm11 |-> p] : p \in NestAt(NestPrefix) },
                NoLoad, thumb_bl_prefix)

\* bl (second halfword)
NestBlSuffix ==
    /\ InsnStep("thumb_bl_imm_suffix", TRUE, { [imm11 |-> s] : s \in NestAt(NestSuffix) },
                NoLoad, thumb_bl_imm_suffix)

\* bkpt #imm8
NestBkptStep ==
    /\ InsnStep("thumb_bkpt", TRUE, { [imm8 |-> i] : i \in NestAt(NestBkpt) },
                NoLoad, thumb_bkpt)

\* bx pc
NestBxPc ==
    /\ InsnStep("thumb_bx", TRUE, { [rm |-> r] : r \in NestAt(NestBx) }, NoLoad, thumb_bx)

\* ldmia r0, {pc}^ loading the return address the handler saved: LR - 4,
\* with bit 0 set when the interrupted code was Thumb code.
NestReturn ==
    /\ InsnStep("arm_ldm_user", FALSE,
                { [rn |-> 0, list |-> {15}, u |-> TRUE, p |-> FALSE, w |-> FALSE] :
                    a \in {NestFetched.pc} \cap NestRet },
                { <<NestFetched.reg[14] - 4 + (IF NestFetched.spsr.thumb THEN 1 ELSE 0), 0>> },
                arm_ldm_user)

(***************************************************************************)
(* The CPU specification: the run loop executing load, store and branch    *)
(* instructions out of memory whose contents are arbitrary.                *)
(***************************************************************************)
NextCpu ==
    \/ BusStep(MaxCpuCycle)
    \/ CpuStepAssert
    \/ CpuFetchFault
    \/ ArmLdrImm
    \/ ArmLdrReg
    \/ ArmStrImm
    \/ ThumbLdrImm
    \/ ThumbStrImm
    \/ ThumbStrReg
    \/ ThumbStm
    \/ ThumbPush
    \/ ThumbPop
    \/ ThumbBx
    \/ ThumbBlxReg

SpecCpu == Init /\ [][NextCpu]_vars

(***************************************************************************)
(* The load/store-multiple specification: the run loop executing ARM       *)
(* load- and store-multiple instructions out of arbitrary memory.          *)
(***************************************************************************)
NextMulti ==
    \/ BusStep(MaxMultiCycle)
    \/ CpuFetchFault
    \/ ArmStmUser
    \/ ArmLdmUser
    \/ ArmStm
    \/ ArmStmdb

SpecMulti == Init /\ [][NextMulti]_vars

(***************************************************************************)
(* The branch specification: the run loop executing an interworking load   *)
(* of the PC, Thumb BL halves and SVCs.                                    *)
(***************************************************************************)
NextBranch ==
    \/ BusStep(MaxBranchCycle)
    \/ CpuFetchFault
    \/ ArmLdrImm
    \/ ThumbBlPrefix
    \/ ThumbBlImmSuffix
    \/ ThumbSvc
    \/ ArmSvc

SpecBranch == Init /\ [][NextBranch]_vars

(***************************************************************************)
(* The load specification: the run loop executing ARM load-multiple and    *)
(* halfword-load instructions out of arbitrary memory.                     *)
(***************************************************************************)
NextLoad ==
    \/ BusStep(MaxLoadCycle)
    \/ CpuFetchFault
    \/ ArmLdmia
    \/ ArmLdrhImm

SpecLoad == Init /\ [][NextLoad]_vars

(***************************************************************************)
(* The nested-interrupt specification: the run loop executing the guest    *)
(* program with the interrupt handler, with the PPC bridge running beside  *)
(* it and raising the ARM-side IPC interrupt at any time.                  *)
(***************************************************************************)
NextNest ==
    \/ BusStep(MaxNestCycle)
    \/ NestStepTop
    \/ CpuStore(NestStores)
    \/ NestLdrPc
    \/ NestBlPrefix
    \/ NestBlSuffix
    \/ NestBkptStep
    \/ NestBxPc
    \/ NestReturn
    \/ PpcStart
    \/ PpcWaitOn
    \/ PpcPoll
    \/ PpcTakeIrq
    \/ PpcExtraAck

SpecNest == Init /\ [][NextNest]_vars

(***************************************************************************)
(* Properties of the task queue.                                           *)
(***************************************************************************)
\* C1: a task scheduled by an MMIO write the CPU performs during CPU step N
\* is not executed during step N; it is executed by the drain of the bus
\* step that precedes CPU step N+1.  So a task of CPU origin N is still
\* queued only during step N itself or while the run loop is about to take
\* the next bus step, and when it runs, it runs in the bus step given CPU
\* cycle N+1.
C1_TaskRunsInNextBusStep ==
    /\ \A i \in DOMAIN bus.tasks :
         bus.tasks[i].by = "cpu" =>
           \/ emu.cpu_cycle = bus.tasks[i].sched
           \/ emu.cpu_cycle = bus.tasks[i].sched + 1 /\ emu.phase = "bus"
    /\ \A i \in DOMAIN bus.executed :
         bus.executed[i].task.by = "cpu" =>
           bus.executed[i].at = bus.executed[i].task.sched + 1

\* A bus step has just run a task that the CPU scheduled one step earlier.
C1_Witness ==
    /\ last.op = "bus_step"
    /\ \E i \in DOMAIN bus.executed :
         /\ bus.executed[i].task.by = "cpu"
         /\ bus.executed[i].task.sched >= 1
         /\ bus.executed[i].at = bus.executed[i].task.sched + 1

Due(tasks, cycle) == SelectSeq(tasks, LAMBDA t : t.target_cycle <= cycle)
NotDue(tasks, cycle) == SelectSeq(tasks, LAMBDA t : t.target_cycle > cycle)

\* C7: when a bus step completes, every task that was queued with
\* target_cycle <= the bus cycle has been executed exactly once and removed
\* from the queue, and no task with a larger target_cycle has been executed
\* or removed.  The queue then holds the tasks that were not due, in their
\* order, followed by the tasks the step itself pushed.
C7_DrainRunsExactlyTheDueTasks ==
    (last.op = "bus_step" /\ bus.fault = "none") =>
      LET cyc == bus.cycle - 1
          due == Due(last.tasks, cyc)
          kept == NotDue(last.tasks, cyc)
      IN /\ [i \in DOMAIN bus.executed |-> bus.executed[i].task] = due
         /\ Len(bus.tasks) >= Len(kept)
         /\ SubSeq(bus.tasks, 1, Len(kept)) = kept
         /\ \A i \in (Len(kept) + 1)..Len(bus.tasks) :
              bus.tasks[i].by = "bus" /\ bus.tasks[i].sched = last.cycle

\* A completed bus step whose queue held two due tasks and one that was not.
C7_Witness ==
    /\ last.op = "bus_step" /\ bus.fault = "none"
    /\ Len(Due(last.tasks, bus.cycle - 1)) >= 2
    /\ Len(NotDue(last.tasks, bus.cycle - 1)) >= 1
    /\ Len(bus.executed) >= 2

(***************************************************************************)
(* Properties of the interrupt controller.                                 *)
(***************************************************************************)
LinesAgree(q) ==
    /\ q.arm_irq_output = ((q.arm_irq_status \cap q.arm_irq_enable) # {})
    /\ q.ppc_irq_output = ((q.ppc_irq_status \cap q.ppc_irq_enable) # {})

\* C2: after every operation that changes an IRQ status or enable register
\* (an MMIO write to the IRQ block, an assert, the PPC bridge clearing its
\* status bit), arm_irq_output equals (arm_status & arm_enable) != 0 and
\* ppc_irq_output equals (ppc_status & ppc_enable) != 0.  Every such
\* operation runs under the bus write lock, so the lines agree in every
\* state.
C2_IrqLinesFollowStatusAndEnable == LinesAgree(bus.hlwd.irq)

\* The PPC bridge has just cleared its pending IPC status bit, which took
\* the PPC line down.
C2_Witness ==
    /\ last.op = "ppc_irq"
    /\ 30 \in last.irq.ppc_irq_status /\ last.irq.ppc_irq_output
    /\ 30 \notin bus.hlwd.irq.ppc_irq_status /\ ~bus.hlwd.irq.ppc_irq_output

\* C3: a CPU step takes an IRQ exception exactly when, at the top of the
\* step, cpsr.irq_disable is false and irq_input is true.
C3_IrqTakenIffUnmaskedAndPending ==
    (last.op = "cpu_top" /\ emu.status # "panicked") =>
      ((cpu.taken = "Irq") <=> (~last.cpu.irq_disable /\ last.cpu.irq_input))

\* A CPU step that took the IRQ exception.
C3_Witness ==
    /\ last.op = "cpu_top" /\ cpu.taken = "Irq"
    /\ ~last.cpu.irq_disable /\ last.cpu.irq_input
    /\ bus.hlwd.irq.arm_irq_output

IsStatusWrite == last.op = "mmio_write" /\ last.dev = "Hlwd" /\ last.off \in {48, 56}

\* C5: writing a value v to an IRQ status register, on the ARM side
\* (IRQ block offset 0x08) or on the PPC side (offset 0x00), clears exactly
\* the bits that are 1 in v and were set, leaves the other bits as they
\* were, and sets none.
C5_StatusWriteClearsWrittenBits ==
    IsStatusWrite =>
      /\ last.off = 56 =>
           bus.hlwd.irq.arm_irq_status = last.irq.arm_irq_status \ last.val
      /\ last.off = 48 =>
           bus.hlwd.irq.ppc_irq_status = last.irq.ppc_irq_status \ last.val

\* The ARM-side part of C5 alone: a write to offset 0x08 clears exactly the
\* written bits of the ARM status register and changes nothing on the PPC
\* side.
C5_ArmStatusWriteClearsWrittenBits ==
    (IsStatusWrite /\ last.off = 56) =>
      /\ bus.hlwd.irq.arm_irq_status = last.irq.arm_irq_status \ last.val
      /\ bus.hlwd.irq.ppc_irq_status = last.irq.ppc_irq_status

\* An ARM status write that cleared one set bit and left another set.
C5_Witness ==
    /\ IsStatusWrite /\ last.off = 56
    /\ last.irq.arm_irq_status = {30, 31} /\ last.val = {30}
    /\ bus.hlwd.irq.arm_irq_status = {31}

\* C6: assert(src) sets the status bit of src on a side only if that side's
\* enable bit for src is set: the bits a bus step newly sets on a side are
\* among the sources it asserted that are enabled on that side.
C6_AssertSetsOnlyEnabledBits ==
    last.op = "bus_step" =>
      /\ (bus.hlwd.irq.arm_irq_status \ last.irq.arm_irq_status)
           \subseteq (bus.asserted \cap last.irq.arm_irq_enable)
      /\ (bus.hlwd.irq.ppc_irq_status \ last.irq.ppc_irq_status)
           \subseteq (bus.asserted \cap last.irq.ppc_irq_enable)

\* A bus step asserted a source enabled on the PPC side only: the bit was
\* set there and not on the ARM side.
C6_Witness ==
    /\ last.op = "bus_step"
    /\ 30 \in bus.asserted
    /\ 30 \notin last.irq.arm_irq_enable /\ 30 \in last.irq.ppc_irq_enable
    /\ 30 \notin last.irq.ppc_irq_status /\ 30 \in bus.hlwd.irq.ppc_irq_status
    /\ 30 \notin bus.hlwd.irq.arm_irq_status

(***************************************************************************)
(* Properties of the Hollywood timer.                                      *)
(***************************************************************************)
\* C8 as stated: whenever the timer value equals the alarm register at a
\* bus step, the Timer IRQ is asserted in that step.
C8_TimerEqualsAlarmAsserts ==
    (last.op = "bus_step" /\ BitsOf(bus.hlwd.timer.timer) = bus.hlwd.timer.alarm)
      => 0 \in bus.asserted

\* C8: a bus step asserts the Timer IRQ exactly when it increments the
\* timer, which it does when at least CPU_CLK_DIV CPU cycles have passed
\* since the previous increment, and the incremented value equals the alarm
\* register.  A step that leaves the timer unchanged asserts nothing, even
\* while timer and alarm are equal.
C8_TimerAssertsOnIncrementToAlarm ==
    last.op = "bus_step" =>
      /\ (bus.hlwd.timer.timer = last.timer.timer + 1)
           <=> (last.cycle - last.timer.cpu_cycle_prev >= CPU_CLK_DIV)
      /\ (bus.hlwd.timer.timer # last.timer.timer + 1)
           => bus.hlwd.timer.timer = last.timer.timer
      /\ (0 \in bus.asserted)
           <=> /\ bus.hlwd.timer.timer = last.timer.timer + 1
               /\ BitsOf(bus.hlwd.timer.timer) = bus.hlwd.timer.alarm

\* The bus step in which the timer ticked to the programmed alarm value and
\* the Timer IRQ was asserted, and a later one in which they are still equal
\* and nothing is asserted.
C8_Witness ==
    /\ last.op = "bus_step"
    /\ bus.hlwd.timer.alarm = {1} /\ bus.hlwd.timer.timer = 2
    /\ last.timer.timer = 1
    /\ 0 \in bus.asserted
    /\ 0 \in bus.hlwd.irq.arm_irq_status

(***************************************************************************)
(* Properties of the CPU step and the instruction handlers.                *)
(***************************************************************************)
\* C4: at the start of every CPU step the fetch PC has bit 0 clear, and in
\* ARM state (Thumb flag clear) bits 1..0 of the fetch PC are both clear.
C4_FetchPcAligned ==
    (Running /\ emu.phase = "cpu") =>
      /\ cpu.pc % 2 = 0
      /\ ~cpu.thumb => cpu.pc % 4 = 0

\* C9: no instruction handler panics; every handler returns a dispatch
\* result, also when an address translation or bus access inside it fails.
C9_NoHandlerPanics ==
    last.op = "cpu_step" => last.res # "Panic"

\* C10: when an address translation or bus access performed by a load/store
\* handler fails, the handler returns neither RetireOk nor RetireBranch, and
\* the run loop does not go on to the next step.
C10_FailedAccessIsNotRetired ==
    (last.op = "cpu_step" /\ last.failed) =>
      /\ last.res \notin {"RetireOk", "RetireBranch"}
      /\ ~Running

(***************************************************************************)
(* Properties of the ARM load/store-multiple handlers.                     *)
(***************************************************************************)
\* C11: after a user-bank LDM/STM handler has finished, whether it retired,
\* performed an exception return or returned FatalErr, the registers that
\* are active are those of the bank of cpsr.mode.
C11_UserMultiLeavesBankOfMode ==
    (last.op = "cpu_step" /\ last.insn \in {"arm_stm_user", "arm_ldm_user"}
        /\ last.res \in {"RetireOk", "RetireBranch", "FatalErr"})
    => cpu.bank = cpu.mode

\* C13: when R15 is in the register list of an ARM store-multiple (stm,
\* stmdb) that retires, the word stored for R15 (the last one, R15 being
\* the highest register) is the address of the instruction plus 12.
C13_StmStoresPcPlus12 ==
    (last.op = "cpu_step" /\ last.insn \in {"arm_stm", "arm_stmdb"}
        /\ last.res = "RetireOk" /\ 15 \in last.opc.list)
    => last.stored[Len(last.stored)] = last.cpu.pc + 12

(***************************************************************************)
(* Properties of the branching instructions.                               *)
(***************************************************************************)
\* C12: an ARM LDR whose destination is R15 (immediate-offset or
\* register-offset form) that loads a word w leaves the Thumb flag equal to
\* bit 0 of w and the fetch PC equal to w with bit 0 cleared.
C12_LdrPcInterworks ==
    (last.op = "cpu_step" /\ last.insn \in {"arm_ldr_imm", "arm_ldr_reg"}
        /\ last.res = "RetireBranch")
    => /\ cpu.thumb = (last.loads[1] % 2 # 0)
       /\ cpu.pc = ClearBit0(last.loads[1])

\* The value of the 23-bit two's-complement number v.
SignExtend23(v) == IF v >= 4194304 THEN v - 8388608 ELSE v

\* C14: when the suffix of a Thumb BL with immediate s is executed at A+2
\* after the prefix with immediate p was executed at A, it leaves
\* LR = (A+4) | 1 and fetch PC = (A+4) + sign_extend(p<<12 | s<<1).
C14_BlPairLinksAndBranches ==
    (last.op = "cpu_step" /\ last.insn = "thumb_bl_imm_suffix"
        /\ last.cpu.bl.set /\ last.cpu.pc = last.cpu.bl.at + 2)
    => /\ cpu.reg[14] = SetBit0(last.cpu.bl.at + 4)
       /\ cpu.pc = (last.cpu.bl.at + 4)
                      + SignExtend23(last.cpu.bl.imm * 4096 + last.opc.imm11 * 2)

\* C14 witness: a BL pair with a negative offset (bit 10 of p set) and a
\* non-zero suffix immediate has been executed.
C14_Witness ==
    /\ last.op = "cpu_step" /\ last.insn = "thumb_bl_imm_suffix"
    /\ last.cpu.bl.set /\ last.cpu.pc = last.cpu.bl.at + 2
    /\ last.cpu.bl.imm = 1024 /\ last.opc.imm11 = 3
    /\ cpu.pc < 0

\* The immediate of the SVC the latest step executed is 0xAB.
SvcImmIsAB ==
    IF last.cpu.thumb THEN last.opc.imm8 = 171 ELSE last.opc.lo24 = 171

\* C15: a step that executes an SVC whose immediate is 0xAB (Thumb imm8,
\* ARM imm24) is a Semihosting step, the PC is past the instruction and no
\* Swi exception is entered; a step that executes any other SVC enters the
\* Swi exception.
C15_SvcABIsSemihosting ==
    (last.op = "cpu_step" /\ last.insn \in {"thumb_svc", "arm_svc"})
    => IF SvcImmIsAB
       THEN /\ last.step = "Semihosting"
            /\ cpu.pc = last.cpu.pc + (IF last.cpu.thumb THEN 2 ELSE 4)
            /\ cpu.thumb = last.cpu.thumb /\ cpu.mode = last.cpu.mode
            /\ cpu.taken # "Swi"
       ELSE /\ last.step = "StepException"
            /\ cpu.taken = "Swi" /\ cpu.mode = "Svc" /\ cpu.pc = SwiVector

\* C15 witness: a Thumb SVC #0xAB has been stepped as Semihosting.
C15_Witness ==
    /\ last.op = "cpu_step" /\ last.insn = "thumb_svc" /\ last.opc.imm8 = 171
    /\ last.step = "Semihosting" /\ cpu.thumb

(***************************************************************************)
(* SD host controller.                                                     *)
(***************************************************************************)
\* C16: with a card present, in every state in which the card-inserted
\* interrupt (bit 6) is enabled in both NormalIntStatusEnable and
\* NormalIntSignalEnable, the PresentState bits 16, 17 and 18 are set and the
\* insertion interrupt has been raised exactly once, whatever registers
\* (SoftwareReset included) were written before.
C16_InsertRaisedExactlyOnce ==
    (bus.sd0.device_available /\ ck_int_enabled(bus.sd0, {6}))
    => /\ {16, 17, 18} \subseteq raw_read(bus.sd0, base_offset("PresentState"))
       /\ bus.sd0.insert_ints = 1

\* The latest step was a bus step that ran a DMA task while a DMA transfer
\* was InProgress and the Transfer-Complete (bit 1) and DMA (bit 3)
\* interrupts were enabled.
DmaInProgress == {"DMAReadInProgress", "DMAWriteInProgress"}

DmaBurstRan ==
    /\ last.op = "bus_step"
    /\ last.sd0.device.tx_status \in DmaInProgress
    /\ ck_int_enabled(last.sd0, {1}) /\ ck_int_enabled(last.sd0, {3})
    /\ \E i \in 1..Len(bus.executed) :
          bus.executed[i].task.kind \in {[kind |-> "SDHC", arg |-> "DoDMARead"],
                                          [kind |-> "SDHC", arg |-> "DoDMAWrite"]}

\* C17: a DMA burst ends in exactly one of two ways: with blocks left at the
\* DMA boundary the DMA interrupt (bit 3) is raised and the transfer stays
\* InProgress; with the block count at zero Transfer-Complete (bit 1) is
\* raised and the transfer leaves the InProgress state.
C17_DmaBurstEndsInOneOfTwoWays ==
    DmaBurstRan =>
      /\ bus.fault = "none"
      /\ IrqSdhc \subseteq bus.asserted
      /\ \/ /\ NumOf(Shr(raw_read(bus.sd0, 4), 16)) > 0
            /\ 3 \in raw_read(bus.sd0, base_offset("NormalIntStatus"))
            /\ 1 \notin raw_read(bus.sd0, base_offset("NormalIntStatus"))
            /\ bus.sd0.device.tx_status = last.sd0.device.tx_status
         \/ /\ NumOf(Shr(raw_read(bus.sd0, 4), 16)) = 0
            /\ 1 \in raw_read(bus.sd0, base_offset("NormalIntStatus"))
            /\ 3 \notin raw_read(bus.sd0, base_offset("NormalIntStatus"))
            /\ bus.sd0.device.tx_status \notin DmaInProgress

\* The latest operation was a write to NormalIntStatus with bit 0
\* (Command-Complete) set while a multi-block transfer was Pending.
AckedWhilePending ==
    /\ last.op = "mmio_write" /\ last.dev = "Sdhc0"
    /\ last.off = base_offset("NormalIntStatus") /\ 0 \in last.val
    /\ last.sd0.device.tx_status \in {"MultiReadPending", "MultiWritePending"}

\* The InProgress state and the task that match a Pending state; dma is
\* bit 0 of TxMode.
InProgressOf(pending, dma) ==
    CASE pending = "MultiReadPending" /\ dma -> "DMAReadInProgress"
      [] pending = "MultiReadPending" /\ ~dma -> "MultiReadInProgress"
      [] pending = "MultiWritePending" /\ dma -> "DMAWriteInProgress"
      [] OTHER -> "MultiWriteInProgress"

TransferTaskOf(pending, dma) ==
    CASE pending = "MultiReadPending" /\ dma -> "DoDMARead"
      [] pending = "MultiReadPending" /\ ~dma -> "SendBufReadReady"
      [] pending = "MultiWritePending" /\ dma -> "DoDMAWrite"
      [] OTHER -> "SendBufWriteReady"

TransferTasks == {[kind |-> "SDHC", arg |-> t] :
                    t \in {"DoDMARead", "DoDMAWrite", "SendBufReadReady", "SendBufWriteReady"}}

\* C18: acknowledging Command-Complete in NormalIntStatus while a multi-block
\* transfer is Pending moves the transfer to the matching InProgress state
\* and queues the matching buffer-ready or DMA task, due at once; and a bus
\* step that ends without a panic has run every such task that was queued
\* and due when it began (the bus cycle advances by one in such a step).
C18_AckStartsPendingTransfer ==
    /\ AckedWhilePending =>
         /\ bus.fault = "none"
         /\ bus.sd0.device.tx_status
              = InProgressOf(last.sd0.device.tx_status, 0 \in raw_read(last.sd0, 12))
         /\ Len(bus.tasks) = Len(last.tasks) + 1
         /\ bus.tasks[Len(bus.tasks)].kind
              = [kind |-> "SDHC",
                 arg |-> TransferTaskOf(last.sd0.device.tx_status, 0 \in raw_read(last.sd0, 12))]
         /\ bus.tasks[Len(bus.tasks)].target_cycle <= bus.cycle
    /\ (last.op = "bus_step" /\ bus.fault # "panic") =>
         \A i \in 1..Len(last.tasks) :
            (last.tasks[i].kind \in TransferTasks /\ last.tasks[i].target_cycle < bus.cycle)
            => \E j \in 1..Len(bus.executed) : bus.executed[j].task = last.tasks[i]

\* A bus step has run, without a panic, the DMA or buffer-ready task that an
\* acknowledgement queued.
C18_Witness ==
    /\ last.op = "bus_step" /\ bus.fault = "none"
    /\ last.sd0.device.tx_status \in {"DMAReadInProgress", "DMAWriteInProgress",
                                      "MultiReadInProgress"}
    /\ \E i \in 1..Len(last.tasks) : \E j \in 1..Len(bus.executed) :
          /\ last.tasks[i].kind \in TransferTasks
          /\ bus.executed[j].task = last.tasks[i]

\* C19: a write to NormalIntStatus clears exactly the status bits that are 1
\* in the written value and leaves every other status bit as it was: the
\* status afterwards is the status before without the written bits, so a
\* bit that was 0 stays 0.
C19_NormalIntStatusWriteOneToClear ==
    (last.op = "mmio_write" /\ last.dev = "Sdhc0"
     /\ last.off = base_offset("NormalIntStatus") /\ bus.fault = "none")
    => raw_read(bus.sd0, base_offset("NormalIntStatus")) \cap MaskBits(0, 16)
       = (raw_read(last.sd0, base_offset("NormalIntStatus")) \cap MaskBits(0, 16)) \ last.val

\* C20: a write that changes SystemAddress while a DMA transfer is
\* InProgress queues another DMA burst of the same direction, and the
\* register holds the newly written address for that burst to start at.
C20_SystemAddressChangeRestartsDma ==
    (last.op = "mmio_write" /\ last.dev = "Sdhc0"
     /\ last.off = base_offset("SystemAddress")
     /\ last.val # raw_read(last.sd0, base_offset("SystemAddress"))
     /\ last.sd0.device.tx_status \in DmaInProgress)
    => /\ bus.fault = "none"
       /\ raw_read(bus.sd0, base_offset("SystemAddress")) = last.val
       /\ Len(bus.tasks) = Len(last.tasks) + 1
       /\ bus.tasks[Len(bus.tasks)].kind
            = [kind |-> "SDHC",
               arg |-> IF last.sd0.device.tx_status = "DMAReadInProgress"
                       THEN "DoDMARead" ELSE "DoDMAWrite"]

\* The latest operation was a write to SDHC register word `off`.
SdhcWrote(off) == last.op = "mmio_write" /\ last.dev = "Sdhc0" /\ last.off = off

\* The latest operation was a write that sets bit 0 of SoftwareReset.
SoftwareResetWritten == SdhcWrote(44) /\ 24 \in last.val

\* Every interrupt that was pending before the latest operation is still
\* pending, or is enabled and set in NormalIntStatus.
PendingKeptOrDelivered ==
    \A i \in last.sd0.pending_interrupt_flags :
       \/ i \in bus.sd0.pending_interrupt_flags
       \/ /\ ck_int_enabled(bus.sd0, {i})
          /\ i \in raw_read(bus.sd0, base_offset("NormalIntStatus"))

\* A write to an interrupt enable register that unmasks a pending interrupt
\* moves it into NormalIntStatus and queues the RaiseInt task, due at once.
UnmaskDelivers ==
    (SdhcWrote(52) \/ SdhcWrote(56)) =>
       \A i \in last.sd0.pending_interrupt_flags :
          ck_int_enabled(bus.sd0, {i})
          => /\ i \in raw_read(bus.sd0, base_offset("NormalIntStatus"))
             /\ i \notin bus.sd0.pending_interrupt_flags
             /\ Len(bus.tasks) = Len(last.tasks) + 1
             /\ bus.tasks[Len(bus.tasks)].kind = [kind |-> "SDHC", arg |-> "RaiseInt"]
             /\ bus.tasks[Len(bus.tasks)].target_cycle <= bus.cycle

\* Command-Complete raised by a command while it is masked is parked in the
\* pending flags, and a bus step that runs a RaiseInt task asserts the SDHC
\* interrupt of the Hollywood controller.
MaskedRaiseIsParked ==
    /\ (SdhcWrote(12) /\ bus.fault = "none" /\ ~ck_int_enabled(last.sd0, {0}))
       => 0 \in bus.sd0.pending_interrupt_flags
    /\ (last.op = "bus_step"
        /\ \E j \in 1..Len(bus.executed) :
              bus.executed[j].task.kind = [kind |-> "SDHC", arg |-> "RaiseInt"])
       => IrqSdhc \subseteq bus.asserted

C24_ResetZeroesAllButCardDetect ==
    (SoftwareResetWritten /\ bus.fault = "none") =>
       /\ \A w \in SdWords \ {base_offset("PresentState")} : raw_read(bus.sd0, w) = {}
       /\ raw_read(bus.sd0, base_offset("PresentState"))
            = raw_read(last.sd0, base_offset("PresentState")) \cap {16, 17, 18}
       /\ bus.sd0.insert_raised = last.sd0.insert_raised

\* C24, amended: the same, except that the hardware-initialised Capabilities
\* and MaxCurrentCapabilities registers hold their power-on values.
C24_ResetRestoresPowerOnButCardDetect ==
    (SoftwareResetWritten /\ bus.fault = "none") =>
       /\ \A w \in SdWords \ {base_offset("PresentState")} :
             raw_read(bus.sd0, w) = IF w \in DOMAIN HwInit THEN HwInit[w] ELSE {}
       /\ raw_read(bus.sd0, base_offset("PresentState"))
            = raw_read(last.sd0, base_offset("PresentState")) \cap {16, 17, 18}
       /\ bus.sd0.insert_raised = last.sd0.insert_raised
       /\ bus.sd0.pending_interrupt_flags = {} /\ ~bus.sd0.first_ack

\* A reset has just cleared interrupt enables and a transfer state while the
\* card was inserted.
C24_Witness ==
    /\ SoftwareResetWritten /\ bus.fault = "none"
    /\ last.sd0.insert_raised /\ bus.sd0.insert_raised
    /\ {16, 17, 18} \subseteq raw_read(bus.sd0, base_offset("PresentState"))
    /\ raw_read(last.sd0, 52) # {} /\ raw_read(last.sd0, 56) # {}
    /\ raw_read(last.sd0, base_offset("Response")) # {}
    /\ raw_read(bus.sd0, base_offset("Response")) = {}

(***************************************************************************)
(* SD card.                                                                *)
(***************************************************************************)
\* The latest operation was a write to the Command register that the card
\* accepted, with command index `index`.
CmdIssued(index) ==
    /\ SdhcWrote(base_offset("TxMode")) /\ bus.fault = "none"
    /\ NumOf(Shr(last.val \cap MaskBits(24, 6), 24)) = index

\* C22: after CMD0 the card state is Idle, after CMD2 Ident, after CMD3 Stby
\* with the relative card address published in the response, and after CMD7
\* whose argument carries that address Trans.
C22_InitCommandsSetCardState ==
    /\ CmdIssued(0) => bus.sd0.device.state = "Idle"
    /\ CmdIssued(2) => bus.sd0.device.state = "Ident"
    /\ CmdIssued(3) =>
         /\ bus.sd0.device.state = "Stby"
         /\ bus.sd0.device.rca # 0
         /\ NumOf(Shr(raw_read(bus.sd0, base_offset("Response")), 16)) = bus.sd0.device.rca
    /\ (CmdIssued(7) /\ last.sd0.device.rca # 0
        /\ NumOf(Shr(raw_read(last.sd0, base_offset("Argument")), 16)) = last.sd0.device.rca)
       => bus.sd0.device.state = "Trans"

\* CMD7 with the published address has just selected a card that CMD2 and
\* CMD3 had brought to Stby.
C22_Witness ==
    /\ CmdIssued(7) /\ last.sd0.device.state = "Stby"
    /\ NumOf(Shr(raw_read(last.sd0, base_offset("Argument")), 16)) = last.sd0.device.rca
    /\ bus.sd0.device.state = "Trans" /\ bus.sd0.device.selected

\* C23: the latch set by CMD55 is consumed by the next command: it is set
\* only while CMD55 is the latest command, and once a command has been
\* issued with the latch set, the latch is clear, whatever that command is.
C23_LatchClearAfterNextCommand ==
    /\ bus.sd0.device.acmd => bus.sd0.device.last_cmd = 55
    /\ \A index \in ModelledCmds :
          (CmdIssued(index) /\ last.sd0.device.acmd) => ~bus.sd0.device.acmd

\* C23, amended: the latch is set exactly while CMD55 is the latest command
\* the card accepted: every command clears it, and CMD55, also when it is
\* itself the command after a CMD55, sets it again.
C23_LatchSetIffLatestIsCmd55 ==
    /\ bus.sd0.device.acmd <=> bus.sd0.device.last_cmd = 55
    /\ \A index \in ModelledCmds :
          CmdIssued(index) => (bus.sd0.device.acmd <=> index = 55)

\* ACMD41 has just consumed the latch.
C23_Witness ==
    /\ CmdIssued(41) /\ last.sd0.device.acmd /\ ~bus.sd0.device.acmd
    /\ bus.sd0.device.state = "Ready"

(***************************************************************************)
(* GPIO and SEEPROM.                                                       *)
(***************************************************************************)
\* The bus step just taken ran the pending GpioOutput(val) task.
GpioTaskRan == last.op = "bus_step" /\ last.htask # <<>>

\* C25: after every bus step that ends without a fault, each rising clock
\* edge the guest wrote to the ARM GPIO output register with CS asserted has
\* advanced the SEEPROM state machine by exactly one step: none is left
\* unprocessed and none was processed twice.
C25_EveryClockEdgeStepsOnce ==
    last.op = "bus_step" /\ bus.fault = "none" => bus.hlwd.gpio.lag = 0

\* SeepromState after reset: no bit counted, nothing latched.
SeepromIsReset(s) ==
    /\ s.num_bits = 0 /\ s.in_buf = {} /\ s.opcd = "Init"
    /\ s.addr = <<>> /\ s.write_buffer = <<>> /\ s.out_buf = <<>>

AddressedWord(s) == data_read(s, s.addr[1])

\* C27: once a READ has taken its 11th bit without a fault, the output
\* buffer holds the 16-bit word stored at the addressed location, and after
\* the k-th of the next 16 clocks (bits 12 to 27) MISO in the ARM input
\* register is bit 16 - k of that word: most significant bit first.
C27_ReadShiftsWordMsbFirst ==
    bus.hlwd.gpio.seeprom.opcd = "Read" /\ bus.hlwd.gpio.seeprom.num_bits >= 11
      /\ bus.fault = "none"
    => /\ bus.hlwd.gpio.seeprom.out_buf = <<AddressedWord(bus.hlwd.gpio.seeprom)>>
       /\ bus.hlwd.gpio.seeprom.num_bits \in 12..27
            => ((SeepromMiso \subseteq bus.hlwd.gpio.arm.input)
                <=> (27 - bus.hlwd.gpio.seeprom.num_bits)
                      \in AddressedWord(bus.hlwd.gpio.seeprom))

\* The 16th data bit of word 5 (bit 0, which is set) is on MISO after the
\* 27th clock of the READ, the 15th (bit 1, clear) having been there before.
C27_Witness ==
    /\ GpioTaskRan /\ bus.fault = "none"
    /\ bus.hlwd.gpio.seeprom.opcd = "Read" /\ bus.hlwd.gpio.seeprom.num_bits = 27
    /\ bus.hlwd.gpio.seeprom.addr = <<5>>
    /\ SeepromMiso \subseteq bus.hlwd.gpio.arm.input
    /\ last.gpio.seeprom.num_bits = 26
    /\ (last.gpio.arm.input \cap SeepromMiso) = {}

\* C28: the stored data changes only in the bus step that clocks the 27th
\* bit of a WRITE while write-enable is set, and then the addressed word is
\* the 16 data bits of the command; the 27th bit of a WRITE with
\* write-enable clear fails and leaves the data as it was.
C28_WriteCommitsOnlyWithWren ==
    /\ last.op = "mmio_write" => bus.hlwd.gpio.seeprom.data = last.gpio.seeprom.data
    /\ last.op = "bus_step" /\ bus.hlwd.gpio.seeprom.data # last.gpio.seeprom.data
         => /\ last.gpio.seeprom.opcd = "Write" /\ last.gpio.seeprom.num_bits = 26
            /\ bus.hlwd.gpio.seeprom.num_bits = 27 /\ last.gpio.seeprom.wren
            /\ AddressedWord(bus.hlwd.gpio.seeprom)
                 = bus.hlwd.gpio.seeprom.in_buf \cap MaskBits(0, 16)
    /\ last.op = "bus_step" /\ last.gpio.seeprom.opcd = "Write"
         /\ last.gpio.seeprom.num_bits = 26 /\ bus.hlwd.gpio.seeprom.num_bits = 27
         /\ ~last.gpio.seeprom.wren
         => bus.fault = "err" /\ bus.hlwd.gpio.seeprom.data = last.gpio.seeprom.data

\* A WRITE of 0x8009 to word 5 has been committed after EWEN.
C28_Witness ==
    /\ GpioTaskRan /\ bus.fault = "none"
    /\ last.gpio.seeprom.wren /\ last.gpio.seeprom.data = <<>>
    /\ bus.hlwd.gpio.seeprom.num_bits = 27
    /\ AddressedWord(bus.hlwd.gpio.seeprom) = {0, 3, 15}
    /\ AddressedWord(last.gpio.seeprom) = SeepromImage(5)

\* C29: a bus step that runs a GpioOutput(val) task whose value differs from
\* the ARM output register only outside the SEEPROM pin group ends without
\* a fault and changes nothing in the GPIO block.
C29_OtherPinWriteOnlyLogged ==
    GpioTaskRan /\ (U32Xor(last.gpio.arm.output, last.htask[1]) \cap SeepromPins) = {}
    => bus.fault = "none" /\ bus.hlwd.gpio = last.gpio

\* C38: write-enable changes only at the 5th bit of an extended command,
\* where EWEN sets it and EWDS clears it, so it is kept across CS
\* deassertion and across other commands; and the 27th bit of a WRITE
\* commits the word exactly when write-enable is set at that time.
C38_WrenKeptUntilEwds ==
    /\ last.op \in {"bus_step", "mmio_write"}
         /\ bus.hlwd.gpio.seeprom.wren # last.gpio.seeprom.wren
         => /\ last.op = "bus_step"
            /\ last.gpio.seeprom.opcd = "Ext" /\ last.gpio.seeprom.num_bits = 4
            /\ bus.hlwd.gpio.seeprom.num_bits = 5
            /\ bus.hlwd.gpio.seeprom.wren <=> bus.hlwd.gpio.seeprom.in_buf = {4, 1, 0}
            /\ ~bus.hlwd.gpio.seeprom.wren <=> bus.hlwd.gpio.seeprom.in_buf = {4}
    /\ last.op = "bus_step" /\ last.gpio.seeprom.opcd = "Write"
         /\ last.gpio.seeprom.num_bits = 26 /\ bus.hlwd.gpio.seeprom.num_bits = 27
         => IF last.gpio.seeprom.wren
            THEN /\ bus.fault = "none"
                 /\ AddressedWord(bus.hlwd.gpio.seeprom)
                      = bus.hlwd.gpio.seeprom.in_buf \cap MaskBits(0, 16)
            ELSE /\ bus.fault = "err"
                 /\ bus.hlwd.gpio.seeprom.data = last.gpio.seeprom.data

\* Write-enable, set by an EWEN before CS went low, is still set at the 26th
\* bit of the WRITE that follows, and the 27th bit commits the word.
C38_Witness ==
    /\ last.op = "bus_step" /\ bus.fault = "none" /\ bus.hlwd.gpio.lag = 0
    /\ last.gpio.seeprom.opcd = "Write" /\ last.gpio.seeprom.num_bits = 26
    /\ last.gpio.seeprom.wren /\ bus.hlwd.gpio.seeprom.wren
    /\ bus.hlwd.gpio.seeprom.data = <<[addr |-> 5, val |-> {0, 3, 15}]>>

\* C39: after a bus step that has run the GpioOutput(v) task of a write of v
\* to the ARM GPIO output register and ended without a fault, a read of that
\* register returns v.
C39_OutputReadsBackWritten ==
    GpioTaskRan /\ bus.fault = "none"
    => arm_read_handler(bus.hlwd.gpio.arm, 4) = [ok |-> TRUE, val |-> last.htask[1]]

(***************************************************************************)
(* SHA-1 engine.                                                           *)
(***************************************************************************)
\* The command words of the Sha tasks the latest bus step ran, in order.
ShaCmdsRun ==
    [i \in 1..Len(SelectSeq(bus.executed, LAMBDA e : e.task.kind.kind = "Sha")) |->
       SelectSeq(bus.executed, LAMBDA e : e.task.kind.kind = "Sha")[i].task.kind.arg]

\* ((cmd & 0xFFF) + 1) * 64
ShaLenOf(cmd) == (NumOf(cmd \cap MaskBits(0, 12)) + 1) * 64

\* The total length of the first n commands of cmds.
RECURSIVE ShaLenSum(_, _)
ShaLenSum(cmds, n) == IF n = 0 THEN 0 ELSE ShaLenSum(cmds, n - 1) + ShaLenOf(cmds[n])

\* C30: in a bus step that ends without a fault, each Sha(cmd) task run
\* hashes exactly ((cmd & 0xFFF) + 1) * 64 bytes, in 64-byte blocks, from
\* the address the source register held when the task began, leaves the
\* source register advanced by that number of bytes, and is followed by
\* an assertion of the SHA IRQ if and only if bit 30 of cmd is set.
C30_ShaTaskHashesAdvancesAndInterrupts ==
    last.op = "bus_step" /\ bus.fault = "none"
    => /\ Len(bus.hashed) = Len(ShaCmdsRun)
       /\ \A i \in 1..Len(ShaCmdsRun) :
             /\ bus.hashed[i].len = ShaLenOf(ShaCmdsRun[i])
             /\ bus.hashed[i].blocks * 64 = ShaLenOf(ShaCmdsRun[i])
             /\ NumOf(bus.hashed[i].addr) = NumOf(last.sha.src) + ShaLenSum(ShaCmdsRun, i - 1)
             /\ bus.hashed[i].irq <=> 30 \in ShaCmdsRun[i]
       /\ NumOf(bus.sha.src) = NumOf(last.sha.src) + ShaLenSum(ShaCmdsRun, Len(ShaCmdsRun))
       /\ (IrqSha \subseteq bus.asserted) <=> (\E i \in 1..Len(ShaCmdsRun) : 30 \in ShaCmdsRun[i])
       /\ (IrqSha \subseteq bus.hlwd.irq.arm_irq_status)
            => (IrqSha \subseteq last.irq.arm_irq_status)
               \/ (\E i \in 1..Len(ShaCmdsRun) : 30 \in ShaCmdsRun[i])

\* A bus step ran a two-block command with the interrupt requested on the
\* last 128 bytes of MEM1; the SHA interrupt is pending on the ARM side.
C30_Witness ==
    /\ last.op = "bus_step" /\ bus.fault = "none"
    /\ Len(ShaCmdsRun) = 1 /\ ShaCmdsRun[1] = {0, 30, 31}
    /\ last.sha.src = BitsOf(Mem1Size - 128)
    /\ bus.sha.src = BitsOf(Mem1Size)
    /\ bus.hashed = <<[addr |-> BitsOf(Mem1Size - 128), len |-> 128, blocks |-> 2, irq |-> TRUE]>>
    /\ IrqSha \subseteq bus.hlwd.irq.arm_irq_status

(***************************************************************************)
(* ROM mapping and SRAM mirror flags.                                      *)
(***************************************************************************)
\* The instruction whose last store went to Hollywood register off has
\* retired, and the bus step that follows it ends without a fault.
BusStepFollowsWrite(off) ==
    /\ last.op = "mmio_write" /\ last.dev = "Hlwd" /\ last.off = off
    /\ emu.phase = "bus"
    /\ last'.op = "bus_step" /\ bus'.fault = "none"

\* C33: after the bus step that follows a write to SPARE1 the flag
\* rom_disabled equals bit 12 of the value written, and after the bus step
\* that follows a write to SRNPROT the flag mirror_enabled equals bit 5 of
\* the value written.
C33_FlagsFollowWrittenBit ==
    [][ /\ BusStepFollowsWrite(396) => (bus'.rom_disabled <=> 12 \in last.val)
        /\ BusStepFollowsWrite(96) => (bus'.mirror_enabled <=> 5 \in last.val) ]_vars

(***************************************************************************)
(* ARM load multiple and halfword load.                                    *)
(***************************************************************************)
\* C36: an ARM LDM (increment after, no S bit) that loads R15 sets the Thumb
\* flag to bit 0 of the loaded word and the fetch PC to the loaded word with
\* bit 0 cleared.
C36_LdmPcInterworks ==
    /\ last.op = "cpu_step" /\ last.insn = "arm_ldmia" /\ last.res = "RetireBranch"
    => /\ cpu.thumb <=> last.loads[Cardinality(last.opc.list)] % 2 # 0
       /\ cpu.pc = ClearBit0(last.loads[Cardinality(last.opc.list)])

\* C37: after an ARM halfword load with immediate offset has retired, the
\* destination register holds the zero-extended halfword loaded.
C37_LdrhLoadsHalfword ==
    last.op = "cpu_step" /\ last.insn = "arm_ldrh_imm" /\ last.res = "RetireOk"
    => cpu.reg[last.opc.rt] = last.loads[1] % 65536

(***************************************************************************)
(* A Thumb BL pair interrupted between its halves.                         *)
(***************************************************************************)
\* C32: when an IRQ exception was taken after the prefix of a Thumb BL pair
\* was executed at A, and the suffix is then executed at A+2, the suffix
\* branches to the target its own prefix encodes,
\* (A+4) + sign_extend(p<<12 | s<<1).
C32_InterruptedBlStillBranches ==
    (last.op = "cpu_step" /\ last.insn = "thumb_bl_imm_suffix"
        /\ last.cpu.bl.set /\ last.cpu.bl.intr /\ last.cpu.pc = last.cpu.bl.at + 2)
    => cpu.pc = (last.cpu.bl.at + 4)
                   + SignExtend23(last.cpu.bl.imm * 4096 + last.opc.imm11 * 2)

(***************************************************************************)
(* The PPC bridge and the IRQ line it polls.                               *)
(***************************************************************************)
\* C34: when the bridge has seen ppc_irq_output asserted and then handles the
\* interrupt under the write lock, ppc_ack or ppc_req is set: it never takes
\* the branch that reports an invalid IRQ state.
C34_BridgeFindsAckOrReq ==
    last.op = "ppc_irq" => ppc.pc # "dead"

(***************************************************************************)
(* Non-DMA multi-block read.                                               *)
(***************************************************************************)
\* C35: a bus step that runs the buffer-ready task of a non-DMA multi-block
\* read in progress with at least one block remaining ends without the
\* emulator aborting, with Buffer-Read-Ready raised in NormalIntStatus and
\* the block count one lower.
C35_BufferReadReadyPerBlock ==
    (/\ last.op = "bus_step"
     /\ last.sd0.device.tx_status = "MultiReadInProgress"
     /\ NumOf(Shr(raw_read(last.sd0, 4), 16)) >= 1
     /\ \E i \in 1..Len(last.tasks) :
           /\ last.tasks[i].kind = [kind |-> "SDHC", arg |-> "SendBufReadReady"]
           /\ last.tasks[i].target_cycle <= last.cycle)
    => /\ bus.fault = "none"
       /\ 5 \in raw_read(bus.sd0, base_offset("NormalIntStatus"))
       /\ NumOf(Shr(raw_read(bus.sd0, 4), 16)) = NumOf(Shr(raw_read(last.sd0, 4), 16)) - 1

(***************************************************************************)
(* A memory with write tracking, written by write, write_buf and memset.   *)
(***************************************************************************)
\* The values written: a byte, a halfword and a word by write, one to three
\* bytes by write_buf.
MemWriteVals == {[val |-> 1, width |-> 1], [val |-> 515, width |-> 2],
                 [val |-> 67438087, width |-> 4]}

MemBufs == {<<8>>, <<8, 9>>, <<9, 8, 9>>}

\* One call on the tracked memory: the memory after it, and a panic ends the
\* process.
MemCall(op, off, r) ==
    /\ emu.mem.calls < MaxMemCalls
    /\ emu' = [emu EXCEPT !.mem = [r.mem EXCEPT !.calls = @ + 1],
                          !.status = IF r.res = "Panic" THEN "panicked" ELSE @]
    /\ last' = [NoLast EXCEPT !.op = op, !.off = off, !.res = r.res]
    /\ UNCHANGED <<bus, cpu, ppc>>

MemWrite ==
    /\ Running
    /\ \E off \in 0..MemLen, v \in MemWriteVals :
          MemCall("write", off, mem_write(emu.mem, off, v.val, v.width))

MemWriteBuf ==
    /\ Running
    /\ \E off \in 0..MemLen, src \in MemBufs :
          MemCall("write_buf", off, write_buf(emu.mem, off, src))

MemMemset ==
    /\ Running
    /\ \E off \in 0..MemLen, len \in 1..MemLen, val \in {0, 10} :
          MemCall("memset", off, memset(emu.mem, off, len, val))

NextMem == MemWrite \/ MemWriteBuf \/ MemMemset

SpecMem == Init /\ [][NextMem]_vars

\* C40: with write tracking enabled, after any sequence of write, write_buf
\* and memset calls no call has panicked, the ranges of the write log do not
\* overlap, every byte written since tracking began lies in some range, and
\* each range's recorded bytes equal the memory's bytes at its offsets.
C40_WriteLogDescribesMemory ==
    /\ last.op \in {"write", "write_buf", "memset"} => last.res # "Panic"
    /\ \A a, b \in emu.mem.writes : a # b => (a.end <= b.start \/ b.end <= a.start)
    /\ \A o \in emu.mem.written : \E w \in emu.mem.writes : w.start <= o /\ o < w.end
    /\ \A w \in emu.mem.writes :
          /\ Len(w.data) = w.end - w.start
          /\ \A i \in 1..Len(w.data) : w.data[i] = emu.mem.data[w.start + i]

(***************************************************************************)
(* The digest of the SHA-1 engine against reference SHA-1 values.          *)
(***************************************************************************)
\* The messages in MEM1 as the engine is fed them, with the SHA-1 digest of
\* the message that was padded (sha1) and the SHA-1 digest of the padded
\* bytes themselves (sha1_of_bytes), both computed by a reference SHA-1.
ShaMessages ==
    { [bytes |-> ShaMessageAbc,
       sha1 |-> <<U32Word(43417, 15926), U32Word(18182, 33130), U32Word(47678, 9585),
                  U32Word(30800, 49772), U32Word(40144, 55453)>>,
       sha1_of_bytes |-> <<U32Word(60538, 14470), U32Word(42277, 9011), U32Word(12205, 27647),
                           U32Word(54490, 36748), U32Word(59065, 43051)>>],
      [bytes |-> ShaMessageTwoBlocks,
       sha1 |-> <<U32Word(33944, 15940), U32Word(7227, 53870), U32Word(47790, 19105),
                  U32Word(63825, 10725), U32Word(58694, 28913)>>,
       sha1_of_bytes |-> <<U32Word(40726, 60957), U32Word(15446, 37636), U32Word(22524, 8553),
                           U32Word(64098, 18110), U32Word(34636, 19552)>>] }

\* The engine has been fed exactly the bytes of m since its digest registers
\* were last written, or since construction.
ShaFed(m) == last.op = "bus_step" /\ bus.fault = "none" /\ bus.sha.state.input = m.bytes

\* C31 as stated: for a byte sequence whose length is a multiple of 64, fed
\* through the engine by writing source, length and start bit and draining
\* the tasks, the digest registers equal the reference SHA-1 of those bytes.
C31_DigestIsSha1OfBytesFed ==
    \A m \in ShaMessages : ShaFed(m) => Sha1Digest(bus.sha.state) = m.sha1_of_bytes

\* C31: when the digest registers have been loaded with the SHA-1 initial
\* hash value and the engine is then fed the padded form of a message, in
\* one command or several, the digest registers equal the reference SHA-1
\* of the message; the engine itself neither initialises the digest nor
\* pads its input.
C31_DigestOfPaddedMessage ==
    \A m \in ShaMessages :
        ShaFed(m) /\ bus.sha.state.digest = Sha1InitialValue
        => Sha1Digest(bus.sha.state) = m.sha1

\* The two-block message was fed from the initial hash value by one command.
C31_Witness ==
    /\ last.op = "bus_step" /\ bus.fault = "none"
    /\ bus.sha.state = [digest |-> Sha1InitialValue, input |-> ShaMessageTwoBlocks]
    /\ bus.hashed = <<[addr |-> {6}, len |-> 128, blocks |-> 2, irq |-> FALSE]>>
    /\ bus.sha.src = {6, 7}
    /\ Sha1Digest(bus.sha.state)[1] = U32Word(33944, 15940)

====
